---------------------------- MODULE Spec2Model ----------------------------
(***************************************************************************)
(* Virtual-memory subsystem of the Nachos-RiscV teaching kernel:           *)
(*   - MMU::Translate                      (src/machine/mmu.cc)            *)
(*   - PhysicalMemManager                  (src/vm/physMem.cc)             *)
(*   - the page-fault path of ExceptionHandler (src/unnamed/part_001)      *)
(*                                                                         *)
(* Two specifications are given over the same variables:                   *)
(*   SpecMMU  Translate applied to every translation-table state of a      *)
(*            bounded table (corrupted entries included); the page-fault   *)
(*            handler is any handler (every outcome of its interface).     *)
(*   Spec     the running system: threads of two processes access memory,  *)
(*            page faults are serviced on frames of the physical memory    *)
(*            manager, resident pages are released.                        *)
(***************************************************************************)
EXTENDS Integers, Sequences, FiniteSets, TLC

(***************************************************************************)
(* Configuration (g_cfg) and bounds of the model.                          *)
(***************************************************************************)
\* g_cfg->PageSize, in bytes: the size of the largest access.
PageSize == 8

\* g_cfg->NumPhysPages: the number of physical frames.
NumPhysPages == 3

\* TranslationTable::getMaxNumPages(): the capacity of a translation table.
MaxNumPages == 2

Frames == 0 .. (NumPhysPages - 1)
VPages == 0 .. (MaxNumPages - 1)

\* The address spaces (AddrSpace objects) and the threads running in them.
Owners == {"A", "B"}
Threads == {"t1", "t2"}
\* A second thread of process A.
FaultThreads == {"t1", "t3"}
ProcOf == [t \in Threads \cup FaultThreads |-> IF t = "t2" THEN "B" ELSE "A"]

\* AddrSpace *owner = NULL
NULL == "NULL"

\* Virtual addresses handed to Translate: every page of the table and one
\* page beyond its capacity.
VAddrs == 0 .. ((MaxNumPages + 1) * PageSize - 1)
Sizes == {1, 2, 4, 8}

\* *physAddr is left unwritten when Translate returns an exception.
NoAddr == "unset"

\* uint64_t FindFreePage(): "no page" result.
INVALID_PAGE == -1

\* The swap area: NUM_SECTORS sectors; INVALID_SECTOR is the sector number
\* of a page that has no sector; ERROR is the kernel's error code.
NUM_SECTORS == 3
Sectors == 0 .. (NUM_SECTORS - 1)
INVALID_SECTOR == -1
ERROR == -1

\* The content of a page-sized block of memory or disk.
Contents == {0, 1}

\* Unsigned values are kept as sequences of 16-bit limbs.
LimbBase == 2^16

VARIABLES
  tt,               \* tt[o][vpn]: the translation table of address space o
  tpr,              \* tpr[f]: the physical page table (struct tpr_c)
  free_page_list,   \* the list of free frame numbers
  pc,               \* pc[t]: where thread t is ("idle", "load")
  ctx,              \* ctx[t]: the access thread t is faulting on
  halted,           \* "no", or how the kernel terminated
  ret,              \* the last operation: its arguments and results
  page_flags,       \* page_flags[s]: sector s of the swap area is occupied
  swap_disk,        \* swap_disk[s]: the content of sector s
  mainMemory,       \* mainMemory[f]: the content of frame f
  held,             \* history: the sectors handed out by an allocating
                    \* PutPageSwap and not released since
  written,          \* history: <<sec, c>> when the last PutPageSwap that
                    \* returned sector sec was asked to save content c
  raised,           \* history: the exceptions given to RaiseException, in
                    \* order, each <<exception, virtual address>>
  semaphore,        \* a Semaphore: its count and wait_queue
  lock,             \* a Lock: its is_free, owner and wait_queue
  intStatus,        \* the interrupt status of the machine
  readyList         \* the threads given to Scheduler::ReadyToRun, in order

vars == <<tt, tpr, free_page_list, pc, ctx, halted, ret,
          page_flags, swap_disk, mainMemory, held, written,
          raised, semaphore, lock, intStatus, readyList>>

\* The state of the swap manager and of the machine's memory.
swapVars == <<page_flags, swap_disk, mainMemory, held, written>>

\* The state of the synchronisation objects and of the scheduler.
syncVars == <<semaphore, lock, intStatus, readyList>>

\* The state left by the constructors of Semaphore (count 0) and Lock
\* (synch.cc 136-143), with interrupts enabled and nothing made ready.
SyncConstructed ==
  /\ semaphore = [count |-> 0, wait_queue |-> <<>>]
  /\ lock = [is_free |-> TRUE, owner |-> "NULL", wait_queue |-> <<>>]
  /\ intStatus = "INTERRUPTS_ON"
  /\ readyList = <<>>

(***************************************************************************)
(* Translation table entries.                                              *)
(***************************************************************************)
Entry(r, w, v, u, m, pp) ==
  [readAllowed |-> r, writeAllowed |-> w, valid |-> v, U |-> u, M |-> m,
   physicalPage |-> pp, addrDisk |-> INVALID_SECTOR]

\* An entry of a page the address space does not map.
UnmappedEntry == Entry(FALSE, FALSE, FALSE, FALSE, FALSE, 0)

\* What a read past the end of the table yields.  Translate returns before
\* reading when the page number is out of range.
GetEntry(table, vpn) ==
  IF vpn \in DOMAIN table THEN table[vpn] ELSE Entry(TRUE, TRUE, TRUE, FALSE, FALSE, 0)

(***************************************************************************)
(* MMU::Translate, check by check.                                         *)
(***************************************************************************)
Vpn(va) == va \div PageSize
Offset(va) == va % PageSize

\* mmu.cc 211-212, with the size-2 test dropped.
AlignmentError_NoHalfword(va, size) == (size = 4) /\ (va % 4 # 0)

AlignmentError(va, size) ==
  \/ (size = 4) /\ (va % 4 # 0)
  \/ (size = 2) /\ (va % 2 # 0)

\* mmu.cc 226, with > in place of >=.
VpnTooLarge_OffByOne(vpn) == vpn > MaxNumPages

VpnTooLarge(vpn) == vpn >= MaxNumPages

\* mmu.cc 233-234, with the valid bit taken into account.
NotMapped_UnlessValid(e) == ~e.readAllowed /\ ~e.writeAllowed /\ ~e.valid

NotMapped(e) == ~e.readAllowed /\ ~e.writeAllowed

\* mmu.cc 240, with the test of "writing" dropped.
WriteDenied_AnyAccess(e, writing) == ~e.writeAllowed

\* mmu.cc 240, applied to resident pages only.
WriteDenied_ResidentOnly(e, writing) == writing /\ ~e.writeAllowed /\ e.valid

WriteDenied(e, writing) == writing /\ ~e.writeAllowed

\* mmu.cc 262-263, with > in place of >=.
FrameOutOfBounds_OffByOne(pp) == (pp < 0) \/ (pp > NumPhysPages)

FrameOutOfBounds(pp) == (pp < 0) \/ (pp >= NumPhysPages)

\* mmu.cc 270-273, with the M bit set on every access.
SetUM_AlwaysDirty(e, writing) == [e EXCEPT !.M = TRUE, !.U = TRUE]

SetUM(e, writing) == [e EXCEPT !.M = IF writing THEN TRUE ELSE @, !.U = TRUE]

PhysAddrOf(pp, va) == pp * PageSize + Offset(va)

\* The checks made before residency, in the order of the code, with the range
\* check made before the alignment check.
TranslateStage_RangeFirst(table, va, size, writing) ==
  IF VpnTooLarge(Vpn(va)) THEN "range"
  ELSE IF AlignmentError(va, size) THEN "alignment"
  ELSE IF NotMapped(GetEntry(table, Vpn(va))) THEN "mapped"
  ELSE IF WriteDenied(GetEntry(table, Vpn(va)), writing) THEN "permission"
  ELSE "residency"

\* The first check that fails ("residency" when none of the first four does).
TranslateStage(table, va, size, writing) ==
  IF AlignmentError(va, size) THEN "alignment"
  ELSE IF VpnTooLarge(Vpn(va)) THEN "range"
  ELSE IF NotMapped(GetEntry(table, Vpn(va))) THEN "mapped"
  ELSE IF WriteDenied(GetEntry(table, Vpn(va)), writing) THEN "permission"
  ELSE "residency"

StageException(stage) ==
  CASE stage = "alignment" -> "BUSERROR_EXCEPTION"
    [] stage = "range" -> "ADDRESSERROR_EXCEPTION"
    [] stage = "mapped" -> "ADDRESSERROR_EXCEPTION"
    [] stage = "permission" -> "READONLY_EXCEPTION"
    [] stage = "frame" -> "BUSERROR_EXCEPTION"
    [] OTHER -> "NO_EXCEPTION"

\* The page numbers whose entry Translate has read when it stops at a stage.
EntriesRead(stage, va) ==
  IF stage \in {"alignment", "range"} THEN {} ELSE {Vpn(va)}

\* mmu.cc 261-278, with the entry left not valid once it was translated.
TranslateResident_Invalidates(table, va, writing) ==
  LET vpn == Vpn(va)
      e == GetEntry(table, vpn)
  IN  IF FrameOutOfBounds(e.physicalPage)
        THEN [table |-> table, stage |-> "frame", physAddr |-> NoAddr]
        ELSE [table |-> [table EXCEPT ![vpn] = [SetUM(e, writing) EXCEPT !.valid = FALSE]],
              stage |-> "done",
              physAddr |-> PhysAddrOf(e.physicalPage, va)]

\* The end of Translate, mmu.cc 261-278, on an entry that is valid: the new
\* table, the exception and the physical address.
TranslateResident(table, va, writing) ==
  LET vpn == Vpn(va)
      e == GetEntry(table, vpn)
  IN  IF FrameOutOfBounds(e.physicalPage)
        THEN [table |-> table, stage |-> "frame", physAddr |-> NoAddr]
        ELSE [table |-> [table EXCEPT ![vpn] = SetUM(e, writing)],
              stage |-> "done",
              physAddr |-> PhysAddrOf(e.physicalPage, va)]

\* mmu.cc 255-258, with the test of the valid bit after the handler dropped.
StillInvalidExits_Never(e) == FALSE

\* mmu.cc 255-258: after the handler has run, exit(ERROR) when the entry is
\* still not valid.
StillInvalidExits(e) == ~e.valid

\* The record of a Translate call: its arguments, the table it was called on
\* ("before"), the check it stopped at, what it returned (when it returned),
\* the number of PAGEFAULT_EXCEPTIONs it raised and the entries it read.
TranslateRet(o, va, size, writing, stage, physAddr, faults, before, returned) ==
  [op |-> "Translate", owner |-> o, va |-> va, size |-> size,
   writing |-> writing, stage |-> stage,
   exc |-> IF returned THEN StageException(stage) ELSE "(no return)",
   physAddr |-> physAddr, faults |-> faults, read |-> EntriesRead(stage, va),
   before |-> before, returned |-> returned]

NoRet == [op |-> "none"]

(***************************************************************************)
(* PhysicalMemManager.  Each operation yields the new tpr, free list and   *)
(* tables, and "fail": "" when it returns, "assert" when an ASSERT fails,  *)
(* "segv" when it dereferences a NULL owner.                               *)
(***************************************************************************)
\* physMem.cc 37-42: every frame free, unlocked, without owner.  virtualPage
\* is not initialised; it is read only behind a non-NULL owner, and
\* SetTPREntry writes both.
InitTpr ==
  [f \in Frames |-> [free |-> TRUE, locked |-> FALSE, virtualPage |-> 0, owner |-> NULL]]

RECURSIVE Iota(_, _)
Iota(i, n) == IF i >= n THEN <<>> ELSE <<i>> \o Iota(i + 1, n)

\* physMem.cc 41: free_page_list.Append(i) for i = 0 .. NumPhysPages-1.
InitFreeList == Iota(0, NumPhysPages)

\* physMem.cc 116-120, with the owner left as it was.
SetTPREntry_KeepsOwner(tp, pp, virtualpage, owner, locked) ==
  [tp EXCEPT ![pp].virtualPage = virtualpage, ![pp].locked = locked]

\* physMem.cc 116-120, with the locked flag left as it was.
SetTPREntry_NeverLocks(tp, pp, virtualpage, owner, locked) ==
  [tp EXCEPT ![pp].virtualPage = virtualpage, ![pp].owner = owner]

SetTPREntry(tp, pp, virtualpage, owner, locked) ==
  [tp EXCEPT ![pp].virtualPage = virtualpage, ![pp].owner = owner, ![pp].locked = locked]

\* physMem.cc 131-153, with the frame left marked free.
FindFreePage_LeavesFree(tp, fl) ==
  IF fl = <<>> THEN [fail |-> "", page |-> INVALID_PAGE, tpr |-> tp, list |-> fl]
  ELSE IF ~tp[Head(fl)].free
    THEN [fail |-> "assert", page |-> INVALID_PAGE, tpr |-> tp, list |-> Tail(fl)]
    ELSE [fail |-> "", page |-> Head(fl), tpr |-> tp, list |-> Tail(fl)]

\* physMem.cc 131-153.  List::Remove takes the first item of the list.
FindFreePage(tp, fl) ==
  IF fl = <<>> THEN [fail |-> "", page |-> INVALID_PAGE, tpr |-> tp, list |-> fl]
  ELSE IF ~tp[Head(fl)].free
    THEN [fail |-> "assert", page |-> INVALID_PAGE, tpr |-> tp, list |-> Tail(fl)]
    ELSE [fail |-> "", page |-> Head(fl),
          tpr |-> [tp EXCEPT ![Head(fl)].free = FALSE], list |-> Tail(fl)]

\* physMem.cc 94-100, without the assertion that the frame is not free.
UnlockPage_NoFreeCheck(tp, num_page) ==
  IF ~(num_page < NumPhysPages) \/ ~tp[num_page].locked
    THEN [fail |-> "assert", tpr |-> tp]
    ELSE [fail |-> "", tpr |-> [tp EXCEPT ![num_page].locked = FALSE]]

\* physMem.cc 94-100.
UnlockPage(tp, num_page) ==
  IF ~(num_page < NumPhysPages) \/ ~tp[num_page].locked \/ tp[num_page].free
    THEN [fail |-> "assert", tpr |-> tp]
    ELSE [fail |-> "", tpr |-> [tp EXCEPT ![num_page].locked = FALSE]]

\* physMem.cc 43: the cursor of the clock algorithm; no operation assigns it
\* after the constructor.
i_clock == -1

\* physMem.cc 164-169: prints a warning and calls exit(ERROR); the return
\* statement is never reached.
EvictPage(tp) == [fail |-> "exit", page |-> INVALID_PAGE, tpr |-> tp]

\* owner->translationTable != NULL: an address space without a table has the
\* empty table.
HasTable(tables, o) == DOMAIN tables[o] # {}

\* TranslationTable::clearBitValid(vpn)
ClearBitValid(table, vpn) == [table EXCEPT ![vpn].valid = FALSE]

\* physMem.cc 65-80, without the assertion that the frame is not free.
FreePhysicalPage_NoAssert(tp, fl, tables, num_page) ==
  IF tp[num_page].owner = NULL
    THEN [fail |-> "segv", tpr |-> [tp EXCEPT ![num_page].free = TRUE, ![num_page].locked = FALSE],
          list |-> fl, tt |-> tables]
  ELSE [fail |-> "",
        tpr |-> [tp EXCEPT ![num_page].free = TRUE, ![num_page].locked = FALSE],
        list |-> <<num_page>> \o fl,
        tt |-> IF HasTable(tables, tp[num_page].owner)
                 THEN [tables EXCEPT ![tp[num_page].owner] =
                         ClearBitValid(@, tp[num_page].virtualPage)]
                 ELSE tables]

\* physMem.cc 65-80, with the valid bit of the mapping left set.
FreePhysicalPage_KeepsValid(tp, fl, tables, num_page) ==
  IF tp[num_page].free
    THEN [fail |-> "assert", tpr |-> tp, list |-> fl, tt |-> tables]
  ELSE IF tp[num_page].owner = NULL
    THEN [fail |-> "segv", tpr |-> [tp EXCEPT ![num_page].free = TRUE, ![num_page].locked = FALSE],
          list |-> fl, tt |-> tables]
  ELSE [fail |-> "",
        tpr |-> [tp EXCEPT ![num_page].free = TRUE, ![num_page].locked = FALSE],
        list |-> <<num_page>> \o fl,
        tt |-> tables]

\* physMem.cc 65-80.  List::Prepend puts the frame at the front of the list.
FreePhysicalPage(tp, fl, tables, num_page) ==
  IF tp[num_page].free
    THEN [fail |-> "assert", tpr |-> tp, list |-> fl, tt |-> tables]
  ELSE IF tp[num_page].owner = NULL
    THEN [fail |-> "segv", tpr |-> [tp EXCEPT ![num_page].free = TRUE, ![num_page].locked = FALSE],
          list |-> fl, tt |-> tables]
  ELSE [fail |-> "",
        tpr |-> [tp EXCEPT ![num_page].free = TRUE, ![num_page].locked = FALSE],
        list |-> <<num_page>> \o fl,
        tt |-> IF HasTable(tables, tp[num_page].owner)
                 THEN [tables EXCEPT ![tp[num_page].owner] =
                         ClearBitValid(@, tp[num_page].virtualPage)]
                 ELSE tables]

(***************************************************************************)
(* SpecMMU: Translate on every table state.                                *)
(***************************************************************************)
\* Values of the physicalPage field: in bounds, and out of bounds on both
\* sides (a corrupted table).
PhysVals == {-1, 0, NumPhysPages - 1, NumPhysPages}

AllEntries ==
  {Entry(r, w, v, u, m, pp) : r \in BOOLEAN, w \in BOOLEAN, v \in BOOLEAN,
                               u \in BOOLEAN, m \in BOOLEAN, pp \in PhysVals}

\* A resident read-write page.
ResidentEntry == Entry(TRUE, TRUE, TRUE, FALSE, FALSE, 0)

\* The tables Translate is applied to: one entry is any entry, the others
\* are all unmapped or all resident.
MMUTables ==
  {[v \in VPages |-> IF v = focus THEN e ELSE other] :
      focus \in VPages, e \in AllEntries, other \in {UnmappedEntry, ResidentEntry}}

\* The current process of SpecMMU (g_current_thread->GetProcessOwner()).
Current == "A"

\* What RaiseException(PAGEFAULT_EXCEPTION, virtAddr) may come back with:
\* the handler made the entry valid on some physical page, it returned
\* NO_EXCEPTION leaving the entry as it was, or it returned an exception.
HandlerResults(table, vpn) ==
  {[table |-> [table EXCEPT ![vpn].valid = TRUE, ![vpn].physicalPage = pp],
    exc |-> "NO_EXCEPTION"] : pp \in PhysVals}
  \cup {[table |-> table, exc |-> "NO_EXCEPTION"],
        [table |-> table, exc |-> "PAGEFAULT_EXCEPTION"]}

InitMMU ==
  /\ \E table \in MMUTables :
       tt = [o \in Owners |-> IF o = Current THEN table
                                ELSE [v \in VPages |-> UnmappedEntry]]
  /\ tpr = InitTpr
  /\ free_page_list = InitFreeList
  /\ pc = [t \in Threads |-> "idle"]
  /\ ctx = [t \in Threads |-> NoRet]
  /\ halted = "no"
  /\ ret = NoRet
  /\ page_flags = [sec \in Sectors |-> FALSE]
  /\ swap_disk = [sec \in Sectors |-> 0]
  /\ mainMemory = [f \in Frames |-> 0]
  /\ held = {}
  /\ written = {}
  /\ raised = <<>>
  /\ SyncConstructed

\* MMU::Translate(virtAddr, &physAddr, size, writing), mmu.cc 205-279, with
\* the exception handler's PAGEFAULT_EXCEPTION case (part_001 692-699).
\* One call is examined per behaviour; InitMMU starts it from every state of
\* the entry it addresses.
Translate(va, size, writing) ==
  /\ halted = "no"
  /\ ret = NoRet
  /\ LET table == tt[Current]
         vpn == Vpn(va)
         stage == TranslateStage(table, va, size, writing)
     IN  IF stage # "residency"
           THEN /\ ret' = TranslateRet(Current, va, size, writing, stage, NoAddr, 0, table, TRUE)
                /\ UNCHANGED <<tt, halted>>
         ELSE IF GetEntry(table, vpn).valid
           THEN LET r == TranslateResident(table, va, writing)
                IN  /\ tt' = [tt EXCEPT ![Current] = r.table]
                    /\ ret' = TranslateRet(Current, va, size, writing, r.stage,
                                            r.physAddr, 0, table, TRUE)
                    /\ UNCHANGED halted
         ELSE \E h \in HandlerResults(table, vpn) :
                IF h.exc # "NO_EXCEPTION"
                  THEN \* part_001 695-698: Halt(ERROR)
                       /\ halted' = "halt"
                       /\ tt' = [tt EXCEPT ![Current] = h.table]
                       /\ ret' = TranslateRet(Current, va, size, writing, "residency",
                                               NoAddr, 1, table, FALSE)
                ELSE IF StillInvalidExits(GetEntry(h.table, vpn))
                  THEN \* mmu.cc 255-258: exit(ERROR)
                       /\ halted' = "exit"
                       /\ tt' = [tt EXCEPT ![Current] = h.table]
                       /\ ret' = TranslateRet(Current, va, size, writing, "residency",
                                               NoAddr, 1, table, FALSE)
                ELSE LET r == TranslateResident(h.table, va, writing)
                     IN  /\ tt' = [tt EXCEPT ![Current] = r.table]
                         /\ ret' = TranslateRet(Current, va, size, writing, r.stage,
                                                 r.physAddr, 1, table, TRUE)
                         /\ UNCHANGED halted
  /\ UNCHANGED <<tpr, free_page_list, pc, ctx>>
  /\ UNCHANGED <<swapVars, raised, syncVars>>

NextMMU ==
  \E va \in VAddrs, size \in Sizes, writing \in BOOLEAN : Translate(va, size, writing)

SpecMMU == InitMMU /\ [][NextMMU]_vars

(***************************************************************************)
(* Spec: the running system.                                               *)
(***************************************************************************)
\* The entry of page v of a newly built address space: not resident; pages
\* are read-write, read-only and unmapped in turn.
InitialEntry(v) ==
  CASE v % 3 = 0 -> Entry(TRUE, TRUE, FALSE, FALSE, FALSE, 0)
    [] v % 3 = 1 -> Entry(TRUE, FALSE, FALSE, FALSE, FALSE, 0)
    [] OTHER -> UnmappedEntry

\* The accesses of the threads: word reads of the first word of every page,
\* and of the page past the table.
SysVAddrs == {v * PageSize : v \in 0 .. MaxNumPages}

Init ==
  /\ tt = [o \in Owners |-> [v \in VPages |-> InitialEntry(v)]]
  /\ tpr = InitTpr
  /\ free_page_list = InitFreeList
  /\ pc = [t \in Threads |-> "idle"]
  /\ ctx = [t \in Threads |-> NoRet]
  /\ halted = "no"
  /\ ret = NoRet
  /\ page_flags = [sec \in Sectors |-> FALSE]
  /\ swap_disk = [sec \in Sectors |-> 0]
  /\ mainMemory = [f \in Frames |-> 0]
  /\ held = {}
  /\ written = {}
  /\ raised = <<>>
  /\ SyncConstructed

\* No page fault is being serviced.
Quiescent == \A t \in Threads : pc[t] = "idle"

\* Thread t calls Translate (mmu.cc 205-279) on the table of its process.
\* On a page that is not valid, PAGEFAULT_EXCEPTION is raised and the handler
\* (part_001 692-699, PageFaultManager::PageFault) starts: it takes a frame
\* with FindFreePage, locks it for the page with SetTPREntry and waits for
\* the page's content; with no free frame it calls EvictPage (physMem.cc
\* 164-169), which exits.  A fault on a page that is being serviced (a
\* locked frame is set up for it) allocates nothing and waits.
InService(tp, o, vpn) ==
  \E f \in Frames : ~tp[f].free /\ tp[f].locked /\ tp[f].owner = o /\ tp[f].virtualPage = vpn

TranslateBy(t, va, size, writing) ==
  /\ halted = "no"
  /\ pc[t] = "idle"
  /\ LET o == ProcOf[t]
         table == tt[o]
         vpn == Vpn(va)
         stage == TranslateStage(table, va, size, writing)
     IN  IF stage # "residency"
           THEN UNCHANGED <<tt, tpr, free_page_list, pc, ctx, halted>>
         ELSE IF GetEntry(table, vpn).valid
           THEN LET r == TranslateResident(table, va, writing)
                IN  /\ tt' = [tt EXCEPT ![o] = r.table]
                    /\ UNCHANGED <<tpr, free_page_list, pc, ctx, halted>>
         ELSE IF InService(tpr, o, vpn)
           THEN /\ pc' = [pc EXCEPT ![t] = "wait"]
                /\ ctx' = [ctx EXCEPT ![t] =
                             [va |-> va, size |-> size, writing |-> writing,
                              frame |-> INVALID_PAGE]]
                /\ UNCHANGED <<tt, tpr, free_page_list, halted>>
         ELSE LET found == FindFreePage(tpr, free_page_list)
              IN  IF found.fail # ""
                    THEN /\ halted' = found.fail
                         /\ UNCHANGED <<tt, tpr, free_page_list, pc, ctx>>
                  ELSE IF found.page = INVALID_PAGE
                    THEN \* EvictPage: exit(ERROR)
                         /\ halted' = "exit"
                         /\ UNCHANGED <<tt, tpr, free_page_list, pc, ctx>>
                  ELSE /\ tpr' = SetTPREntry(found.tpr, found.page, vpn, o, TRUE)
                       /\ free_page_list' = found.list
                       /\ pc' = [pc EXCEPT ![t] = "load"]
                       /\ ctx' = [ctx EXCEPT ![t] =
                                    [va |-> va, size |-> size, writing |-> writing,
                                     frame |-> found.page]]
                       /\ UNCHANGED <<tt, halted>>
  /\ UNCHANGED ret
  /\ UNCHANGED <<swapVars, raised, syncVars>>

\* The content of the page has arrived: the handler sets the entry's physical
\* page and valid bit, unlocks the frame and returns NO_EXCEPTION; Translate
\* goes on from mmu.cc 255.
PageFaultFinish(t) ==
  /\ halted = "no"
  /\ pc[t] = "load"
  /\ LET o == ProcOf[t]
         c == ctx[t]
         vpn == Vpn(c.va)
         loaded == [tt[o] EXCEPT ![vpn].physicalPage = c.frame, ![vpn].valid = TRUE]
         unlocked == UnlockPage(tpr, c.frame)
     IN  IF unlocked.fail # ""
           THEN /\ halted' = unlocked.fail
                /\ tt' = [tt EXCEPT ![o] = loaded]
                /\ UNCHANGED tpr
         ELSE IF StillInvalidExits(GetEntry(loaded, vpn))
           THEN /\ halted' = "exit"
                /\ tt' = [tt EXCEPT ![o] = loaded]
                /\ tpr' = unlocked.tpr
         ELSE LET r == TranslateResident(loaded, c.va, c.writing)
              IN  /\ tt' = [tt EXCEPT ![o] = r.table]
                  /\ tpr' = unlocked.tpr
                  /\ UNCHANGED halted
  /\ pc' = [pc EXCEPT ![t] = "idle"]
  /\ ctx' = [ctx EXCEPT ![t] = NoRet]
  /\ UNCHANGED <<free_page_list, ret>>
  /\ UNCHANGED <<swapVars, raised, syncVars>>

\* The frame of resident page v of address space o is given back:
\* FreePhysicalPage(getPhysicalPage(v)).
ReleasePage(o, v) ==
  /\ halted = "no"
  /\ tt[o][v].valid
  /\ LET freed == FreePhysicalPage(tpr, free_page_list, tt, tt[o][v].physicalPage)
     IN  /\ halted' = IF freed.fail # "" THEN freed.fail ELSE halted
         /\ tpr' = freed.tpr
         /\ free_page_list' = freed.list
         /\ tt' = freed.tt
  /\ UNCHANGED <<pc, ctx, ret>>
  /\ UNCHANGED <<swapVars, raised, syncVars>>

Next ==
  \/ \E t \in Threads, va \in SysVAddrs : TranslateBy(t, va, 4, FALSE)
  \/ \E t \in Threads : PageFaultFinish(t)
  \/ \E o \in Owners, v \in VPages : ReleasePage(o, v)

Spec == Init /\ [][Next]_vars

(***************************************************************************)
(* SpecFault: two threads of one process fault pages in concurrently.      *)
(***************************************************************************)
InitFault ==
  /\ tt = [o \in Owners |-> [v \in VPages |-> InitialEntry(v)]]
  /\ tpr = InitTpr
  /\ free_page_list = InitFreeList
  /\ pc = [t \in FaultThreads |-> "idle"]
  /\ ctx = [t \in FaultThreads |-> NoRet]
  /\ halted = "no"
  /\ ret = NoRet
  /\ page_flags = [sec \in Sectors |-> FALSE]
  /\ swap_disk = [sec \in Sectors |-> 0]
  /\ mainMemory = [f \in Frames |-> 0]
  /\ held = {}
  /\ written = {}
  /\ raised = <<>>
  /\ SyncConstructed

\* A thread that waited for the service of its page runs again and repeats
\* its access.
FaultRetry(t) ==
  /\ halted = "no"
  /\ pc[t] = "wait"
  /\ pc' = [pc EXCEPT ![t] = "idle"]
  /\ ctx' = [ctx EXCEPT ![t] = NoRet]
  /\ UNCHANGED <<tt, tpr, free_page_list, halted, ret>>
  /\ UNCHANGED <<swapVars, raised, syncVars>>

NextFault ==
  \/ \E t \in FaultThreads, va \in SysVAddrs : TranslateBy(t, va, 4, FALSE)
  \/ \E t \in FaultThreads : PageFaultFinish(t)
  \/ \E t \in FaultThreads : FaultRetry(t)
  \/ \E o \in Owners, v \in VPages : ReleasePage(o, v)

SpecFault == InitFault /\ [][NextFault]_vars

(***************************************************************************)
(* SpecPMM: the operations of the physical memory manager called in any    *)
(* order, on any frame.  The last call of a behaviour is recorded in ret,  *)
(* with the state it was made in.                                          *)
(***************************************************************************)
\* The address space that owns frames: it has a translation table, or it is
\* an empty address space (translationTable == NULL).
PMMOwner == "A"
NoTable == [v \in {} |-> UnmappedEntry]
PMMTables ==
  { [o \in Owners |-> [v \in VPages |-> InitialEntry(v)]],
    [o \in Owners |-> NoTable] }

\* The virtual page the callers name.
PMMPages == {0}

\* The frame numbers a caller passes to UnlockPage: every frame, and the
\* first number past the frame table.
FrameArgs == 0 .. NumPhysPages

InitPMM ==
  /\ tt \in PMMTables
  /\ tpr = InitTpr
  /\ free_page_list = InitFreeList
  /\ pc = [t \in Threads |-> "idle"]
  /\ ctx = [t \in Threads |-> NoRet]
  /\ halted = "no"
  /\ ret = NoRet
  /\ page_flags = [sec \in Sectors |-> FALSE]
  /\ swap_disk = [sec \in Sectors |-> 0]
  /\ mainMemory = [f \in Frames |-> 0]
  /\ held = {}
  /\ written = {}
  /\ raised = <<>>
  /\ SyncConstructed

\* The record of a call: the operation, its frame argument, the frame
\* number returned, how the call failed ("" when it returned), and the frame
\* table, free list and translation tables it was made in.
CallRet(op, arg, page, fail) ==
  [op |-> op, arg |-> arg, page |-> page, fail |-> fail,
   tpr |-> tpr, list |-> free_page_list, tt |-> tt]

\* ret after a call, recorded or not.
Recorded(record, r) == IF record THEN r ELSE ret

\* uint64_t FindFreePage()
CallFindFreePage(record) ==
  /\ halted = "no" /\ ret = NoRet
  /\ LET found == FindFreePage(tpr, free_page_list)
     IN  /\ tpr' = found.tpr
         /\ free_page_list' = found.list
         /\ halted' = IF found.fail # "" THEN found.fail ELSE halted
         /\ ret' = Recorded(record, CallRet("FindFreePage", INVALID_PAGE, found.page, found.fail))
  /\ UNCHANGED <<tt, pc, ctx>>
  /\ UNCHANGED <<swapVars, raised, syncVars>>

\* void SetTPREntry(pp, virtualpage, owner, locked)
CallSetTPREntry(pp, virtualpage, owner, locked, record) ==
  /\ halted = "no" /\ ret = NoRet
  /\ tpr' = SetTPREntry(tpr, pp, virtualpage, owner, locked)
  /\ ret' = Recorded(record, CallRet("SetTPREntry", pp, INVALID_PAGE, ""))
  /\ UNCHANGED <<tt, free_page_list, pc, ctx, halted>>
  /\ UNCHANGED <<swapVars, raised, syncVars>>

\* void UnlockPage(num_page)
CallUnlockPage(num_page, record) ==
  /\ halted = "no" /\ ret = NoRet
  /\ LET unlocked == UnlockPage(tpr, num_page)
     IN  /\ tpr' = unlocked.tpr
         /\ halted' = IF unlocked.fail # "" THEN unlocked.fail ELSE halted
         /\ ret' = Recorded(record, CallRet("UnlockPage", num_page, INVALID_PAGE, unlocked.fail))
  /\ UNCHANGED <<tt, free_page_list, pc, ctx>>
  /\ UNCHANGED <<swapVars, raised, syncVars>>

\* void FreePhysicalPage(num_page)
CallFreePhysicalPage(num_page, record) ==
  /\ halted = "no" /\ ret = NoRet
  /\ LET freed == FreePhysicalPage(tpr, free_page_list, tt, num_page)
     IN  /\ tpr' = freed.tpr
         /\ free_page_list' = freed.list
         /\ tt' = freed.tt
         /\ halted' = IF freed.fail # "" THEN freed.fail ELSE halted
         /\ ret' = Recorded(record, CallRet("FreePhysicalPage", num_page, INVALID_PAGE, freed.fail))
  /\ UNCHANGED <<pc, ctx>>
  /\ UNCHANGED <<swapVars, raised, syncVars>>

\* uint64_t EvictPage()
CallEvictPage(record) ==
  /\ halted = "no" /\ ret = NoRet
  /\ LET evicted == EvictPage(tpr)
     IN  /\ tpr' = evicted.tpr
         /\ halted' = IF evicted.fail # "" THEN evicted.fail ELSE halted
         /\ ret' = Recorded(record, CallRet("EvictPage", INVALID_PAGE, evicted.page, evicted.fail))
  /\ UNCHANGED <<tt, free_page_list, pc, ctx>>
  /\ UNCHANGED <<swapVars, raised, syncVars>>

\* The page-fault handler marks page v of the address space resident in
\* the frame it has set up for it: setPhysicalPage(v, f), setBitValid(v).
MapPage(o, v, f) ==
  /\ halted = "no" /\ ret = NoRet
  /\ HasTable(tt, o)
  /\ ~tpr[f].free /\ tpr[f].owner = o /\ tpr[f].virtualPage = v
  /\ tt' = [tt EXCEPT ![o][v].physicalPage = f, ![o][v].valid = TRUE]
  /\ UNCHANGED <<tpr, free_page_list, pc, ctx, halted, ret>>
  /\ UNCHANGED <<swapVars, raised, syncVars>>

NextPMM ==
  \/ \E record \in BOOLEAN : CallFindFreePage(record)
  \/ \E pp \in Frames, v \in PMMPages, locked \in BOOLEAN, record \in BOOLEAN :
       CallSetTPREntry(pp, v, PMMOwner, locked, record)
  \/ \E f \in FrameArgs, record \in BOOLEAN : CallUnlockPage(f, record)
  \/ \E f \in Frames, record \in BOOLEAN : CallFreePhysicalPage(f, record)
  \/ \E record \in BOOLEAN : CallEvictPage(record)
  \/ \E v \in PMMPages, f \in Frames : MapPage(PMMOwner, v, f)

SpecPMM == InitPMM /\ [][NextPMM]_vars

(***************************************************************************)
(* The swap manager (part_003, swapManager.cc).                            *)
(***************************************************************************)
\* The scan of GetFreeSwapSector from sector i: the first sector whose bit
\* is clear, ERROR when there is none.
RECURSIVE FirstClear(_, _)
FirstClear(flags, i) ==
  IF i >= NUM_SECTORS THEN ERROR
  ELSE IF ~flags[i] THEN i
  ELSE FirstClear(flags, i + 1)

\* part_003 181-195, with the scan starting at sector 1.
GetFreeSwapSector_SkipsFirst(flags) ==
  LET i == FirstClear(flags, 1)
  IN  IF i = ERROR THEN [sector |-> ERROR, flags |-> flags]
      ELSE [sector |-> i, flags |-> [flags EXCEPT ![i] = TRUE]]

\* part_003 181-195, without page_flags->Mark(i).
GetFreeSwapSector_NoMark(flags) ==
  [sector |-> FirstClear(flags, 0), flags |-> flags]

\* part_003 181-195, returning the loop counter when the scan finds nothing.
GetFreeSwapSector_ReturnsCount(flags) ==
  LET i == FirstClear(flags, 0)
  IN  IF i = ERROR THEN [sector |-> NUM_SECTORS, flags |-> flags]
      ELSE [sector |-> i, flags |-> [flags EXCEPT ![i] = TRUE]]

\* part_003 181-195.
GetFreeSwapSector(flags) ==
  LET i == FirstClear(flags, 0)
  IN  IF i = ERROR THEN [sector |-> ERROR, flags |-> flags]
      ELSE [sector |-> i, flags |-> [flags EXCEPT ![i] = TRUE]]

\* swap_disk->WriteSector(sector, &mainMemory[pp * PageSize])
WriteSector(disk, mem, sector, pp) == [disk EXCEPT ![sector] = mem[pp]]

\* swap_disk->ReadSector(sector, &mainMemory[pp * PageSize])
ReadSector(disk, mem, sector, pp) == [mem EXCEPT ![pp] = disk[sector]]

\* part_003 205-212, clearing the whole bitmap.
ReleasePageSwap_ClearsAll(flags, disk_addr) == [sec \in Sectors |-> FALSE]

\* part_003 205-212.
ReleasePageSwap(flags, disk_addr) == [flags EXCEPT ![disk_addr] = FALSE]

\* part_003 222-228, reading the sector numbered as the frame.
GetPageSwap_SectorOfFrame(disk, mem, disk_addr, pp) ==
  ReadSector(disk, mem, IF pp \in Sectors THEN pp ELSE disk_addr, pp)

\* part_003 222-228.
GetPageSwap(disk, mem, disk_addr, pp) == ReadSector(disk, mem, disk_addr, pp)

\* The value x in an unsigned type of n 16-bit limbs, least significant
\* limb first: the conversion of C, modulo 2^(16 n), which sign-extends a
\* negative int.
RECURSIVE Limbs(_, _)
Limbs(x, n) ==
  IF n = 0 THEN <<>> ELSE <<x % LimbBase>> \o Limbs(x \div LimbBase, n - 1)

\* (uint32_t) x
ToUint32(x) == Limbs(x, 2)

\* (uint64_t) x
ToUint64(x) == Limbs(x, 4)

\* A uint64_t value passed for a uint32_t parameter keeps its low 32 bits.
Truncate32(u64) == SubSeq(u64, 1, 2)

\* The number a uint32_t value stands for.
FromUint32(u32) == u32[1] + u32[2] * LimbBase

\* The uint64_t value high * 2^32 + low.
Uint64Of(high, low) == ToUint32(low) \o ToUint32(high)

\* The upper 32 bits of a uint64_t value.
High32(u64) == FromUint32(SubSeq(u64, 3, 4))

\* part_003 242-261, allocating a sector whatever disk_addr is.
PutPageSwap_AlwaysAllocates(flags, disk, mem, disk_addr, pp) ==
  LET found == GetFreeSwapSector(flags)
  IN  IF ToUint64(found.sector) = ToUint64(INVALID_SECTOR)
        THEN [sector |-> INVALID_SECTOR, flags |-> found.flags, disk |-> disk]
        ELSE [sector |-> found.sector, flags |-> found.flags,
              disk |-> WriteSector(disk, mem, found.sector, pp)]

\* part_003 242-261.  disk_addr is the caller's value, a sector number or
\* the uint64_t that an earlier PutPageSwap returned; the parameter is a
\* uint32_t, the tests are made at the widths of the casts of the code.
PutPageSwap(flags, disk, mem, disk_addr, pp) ==
  IF Truncate32(ToUint64(disk_addr)) # ToUint32(INVALID_SECTOR)
    THEN [sector |-> disk_addr, flags |-> flags,
          disk |-> WriteSector(disk, mem, disk_addr, pp)]
  ELSE LET found == GetFreeSwapSector(flags)
       IN  IF ToUint64(found.sector) = ToUint64(INVALID_SECTOR)
             THEN [sector |-> INVALID_SECTOR, flags |-> found.flags, disk |-> disk]
             ELSE [sector |-> found.sector, flags |-> found.flags,
                   disk |-> WriteSector(disk, mem, found.sector, pp)]

(***************************************************************************)
(* SpecSwap: the operations of the swap manager called in any order.  The  *)
(* last call of a behaviour is recorded in ret, with the state it was      *)
(* made in.                                                                *)
(***************************************************************************)
\* The sector numbers a caller passes to PutPageSwap: a sector, or the
\* sector number of a page that has none.
SectorArgs == Sectors \cup {INVALID_SECTOR}

InitSwap ==
  /\ tt = [o \in Owners |-> [v \in VPages |-> InitialEntry(v)]]
  /\ tpr = InitTpr
  /\ free_page_list = InitFreeList
  /\ pc = [t \in Threads |-> "idle"]
  /\ ctx = [t \in Threads |-> NoRet]
  /\ halted = "no"
  /\ ret = NoRet
  /\ page_flags = [sec \in Sectors |-> FALSE]
  /\ swap_disk = [sec \in Sectors |-> 0]
  /\ mainMemory \in [Frames -> Contents]
  /\ held = {}
  /\ written = {}
  /\ raised = <<>>
  /\ SyncConstructed

\* The record of a call of the swap manager: the operation, its sector and
\* frame arguments, the sector returned, and the state it was made in.
SwapRet(op, disk_addr, pp, sector) ==
  [op |-> op, arg |-> disk_addr, pp |-> pp, sector |-> sector,
   flags |-> page_flags, disk |-> swap_disk, mem |-> mainMemory, held |-> held,
   written |-> written]

\* uint64_t PutPageSwap(disk_addr, pp)
CallPutPageSwap(disk_addr, pp, record) ==
  /\ halted = "no" /\ ret = NoRet
  /\ LET put == PutPageSwap(page_flags, swap_disk, mainMemory, disk_addr, pp)
     IN  /\ page_flags' = put.flags
         /\ swap_disk' = put.disk
         /\ held' = IF disk_addr = INVALID_SECTOR /\ put.sector # INVALID_SECTOR
                      THEN held \cup {put.sector} ELSE held
         /\ written' = IF put.sector \in Sectors
                         THEN {w \in written : w[1] # put.sector}
                                \cup {<<put.sector, mainMemory[pp]>>}
                         ELSE written
         /\ ret' = Recorded(record, SwapRet("PutPageSwap", disk_addr, pp, put.sector))
  /\ UNCHANGED <<tt, tpr, free_page_list, pc, ctx, halted, mainMemory>>
  /\ UNCHANGED <<raised, syncVars>>

\* void GetPageSwap(disk_addr, pp)
CallGetPageSwap(disk_addr, pp, record) ==
  /\ halted = "no" /\ ret = NoRet
  /\ mainMemory' = GetPageSwap(swap_disk, mainMemory, disk_addr, pp)
  /\ ret' = Recorded(record, SwapRet("GetPageSwap", disk_addr, pp, INVALID_SECTOR))
  /\ UNCHANGED <<tt, tpr, free_page_list, pc, ctx, halted, page_flags, swap_disk, held, written>>
  /\ UNCHANGED <<raised, syncVars>>

\* void ReleasePageSwap(disk_addr)
CallReleasePageSwap(disk_addr, record) ==
  /\ halted = "no" /\ ret = NoRet
  /\ page_flags' = ReleasePageSwap(page_flags, disk_addr)
  /\ held' = held \ {disk_addr}
  /\ ret' = Recorded(record, SwapRet("ReleasePageSwap", disk_addr, INVALID_PAGE, INVALID_SECTOR))
  /\ UNCHANGED <<tt, tpr, free_page_list, pc, ctx, halted, swap_disk, mainMemory, written>>
  /\ UNCHANGED <<raised, syncVars>>

NextSwap ==
  \/ \E disk_addr \in SectorArgs, pp \in Frames, record \in BOOLEAN :
       CallPutPageSwap(disk_addr, pp, record)
  \/ \E disk_addr \in Sectors, pp \in Frames, record \in BOOLEAN :
       CallGetPageSwap(disk_addr, pp, record)
  \/ \E disk_addr \in Sectors, record \in BOOLEAN : CallReleasePageSwap(disk_addr, record)

SpecSwap == InitSwap /\ [][NextSwap]_vars

(***************************************************************************)
(* SpecMem: MMU::ReadMem and MMU::WriteMem on every table state.           *)
(***************************************************************************)
\* part_001 695-698, going on when PageFault returns an exception.
PageFaultHalts_Never(e) == FALSE

\* part_001 695-698: Halt(ERROR) when PageFault returns an exception.
PageFaultHalts(e) == e # "NO_EXCEPTION"

\* PageFaultManager::PageFault as the handler calls it (part_001 694): with
\* no free frame it comes to EvictPage, otherwise it ends as HandlerResults
\* says.
PageFaultOutcomes(table, vpn, fl) ==
  IF fl = <<>> THEN {[table |-> table, exc |-> "(EvictPage)"]}
  ELSE HandlerResults(table, vpn)

\* MMU::Translate, mmu.cc 205-279, on a table, when the handler of its page
\* fault ends as h: the table it leaves, the check it stopped at, the
\* physical address, the page faults raised and "stop", the way the kernel
\* stopped inside the call ("" when Translate returned).
TranslateCall(table, tp, va, size, writing, h) ==
  LET vpn == Vpn(va)
      stage == TranslateStage(table, va, size, writing)
  IN  IF stage # "residency"
        THEN [table |-> table, stage |-> stage, physAddr |-> NoAddr, faults |-> 0, stop |-> ""]
      ELSE IF GetEntry(table, vpn).valid
        THEN LET r == TranslateResident(table, va, writing)
             IN  [table |-> r.table, stage |-> r.stage, physAddr |-> r.physAddr,
                  faults |-> 0, stop |-> ""]
      ELSE IF h.exc = "(EvictPage)"
        THEN [table |-> h.table, stage |-> "residency", physAddr |-> NoAddr,
              faults |-> 1, stop |-> EvictPage(tp).fail]
      ELSE IF PageFaultHalts(h.exc)
        THEN [table |-> h.table, stage |-> "residency", physAddr |-> NoAddr,
              faults |-> 1, stop |-> "halt"]
      ELSE IF StillInvalidExits(GetEntry(h.table, vpn))
        THEN [table |-> h.table, stage |-> "residency", physAddr |-> NoAddr,
              faults |-> 1, stop |-> "exit"]
      ELSE LET r == TranslateResident(h.table, va, writing)
           IN  [table |-> r.table, stage |-> r.stage, physAddr |-> r.physAddr,
                faults |-> 1, stop |-> ""]

\* mmu.cc 87-90 and 150-153, raising the exception once per Translate call.
ExceptionsRaised_PerTranslate(exc, va) ==
  IF exc # "NO_EXCEPTION" THEN <<<<exc, va>>, <<exc, va>>>> ELSE <<>>

\* mmu.cc 87-90 and 150-153: RaiseException(exc, virtAddr) when the first
\* Translate returned an exception.
ExceptionsRaised(exc, va) ==
  IF exc # "NO_EXCEPTION" THEN <<<<exc, va>>>> ELSE <<>>

\* ExceptionHandler, part_001 655-676: READONLY_EXCEPTION, BUSERROR_EXCEPTION
\* and ADDRESSERROR_EXCEPTION end in Halt(ERROR), which stops the machine.
ExceptionHandler(exc) ==
  IF exc \in {"READONLY_EXCEPTION", "BUSERROR_EXCEPTION", "ADDRESSERROR_EXCEPTION"}
    THEN "halt" ELSE ""

\* The frames are all free, or all taken by the other process.
AllTaken == [f \in Frames |-> [owner |-> "B", free |-> FALSE, locked |-> FALSE, virtualPage |-> 0]]

InitMem ==
  /\ \E table \in MMUTables :
       tt = [o \in Owners |-> IF o = Current THEN table
                                ELSE [v \in VPages |-> UnmappedEntry]]
  /\ \/ tpr = InitTpr /\ free_page_list = InitFreeList
     \/ tpr = AllTaken /\ free_page_list = <<>>
  /\ pc = [t \in Threads |-> "idle"]
  /\ ctx = [t \in Threads |-> NoRet]
  /\ halted = "no"
  /\ ret = NoRet
  /\ page_flags = [sec \in Sectors |-> FALSE]
  /\ swap_disk = [sec \in Sectors |-> 0]
  /\ mainMemory = [f \in Frames |-> 0]
  /\ held = {}
  /\ written = {}
  /\ raised = <<>>
  /\ SyncConstructed

\* mmu.cc 92-112 and 155-174: the access reads or writes the size bytes
\* from &mainMemory[physAddr] on.
BytesTouched(physAddr, size) == physAddr .. (physAddr + size - 1)

\* The frames that hold a byte of the access.
FramesTouched(physAddr, size) ==
  {b \div PageSize : b \in BytesTouched(physAddr, size)} \cap Frames

\* mainMemory holds NumPhysPages * PageSize bytes.
InMemory(b) == 0 <= b /\ b < NumPhysPages * PageSize

\* How the access to memory ends ("" when it completes): an access to a
\* byte outside mainMemory is undefined, it completes or the kernel is
\* killed by the host.
AccessOutcomes(physAddr, size) ==
  IF \A b \in BytesTouched(physAddr, size) : InMemory(b) THEN {""} ELSE {"", "segv"}

\* The record of a ReadMem or WriteMem call: its arguments, the exception
\* the first Translate returned, how the page-fault handler ended, the page
\* faults raised and the page given to PageFault, whether the call returned
\* and what, the physical addresses of the two Translate calls, the bytes
\* of memory it touched and the memory it was made on.  virtAddr is the uint64_t address the call was
\* given and va the uint32_t address Translate was given.
MemRet(op, virtAddr, va, size, value, first, physAddrEnd, handler, returned, result, touched) ==
  [op |-> op, virtAddr |-> virtAddr, va |-> va, size |-> size, value |-> value,
   touched |-> touched,
   physAddr |-> first.physAddr, physAddrEnd |-> physAddrEnd,
   exc |-> IF first.stop = "" THEN StageException(first.stage) ELSE "(no return)",
   handler |-> handler, faults |-> first.faults, faultPage |-> Vpn(va),
   returned |-> returned, result |-> result, mem |-> mainMemory]

\* mmu.cc 69-115 (ReadMem) and 132-178 (WriteMem): Translate is called
\* twice, the exception of the first call is raised, and memory is read or
\* written at the address of the first call.  A frame holds one value: a
\* write gives it to every frame it touches.
\* The address is a uint64_t and Translate's parameter a uint32_t
\* (mmu.cc 205): Translate is given the low 32 bits.
MemAccess(op, virtAddr, size, writing, value) ==
  /\ halted = "no"
  /\ ret = NoRet
  /\ \E h \in PageFaultOutcomes(tt[Current], Vpn(FromUint32(Truncate32(virtAddr))),
                                 free_page_list) :
       LET va == FromUint32(Truncate32(virtAddr))
           first == TranslateCall(tt[Current], tpr, va, size, writing, h)
           second == TranslateCall(first.table, tpr, va, size, writing,
                                   [table |-> first.table, exc |-> "NO_EXCEPTION"])
           handler == IF first.faults = 0 THEN "(none)" ELSE h.exc
           faultsRaised == IF first.faults = 0 THEN <<>>
                           ELSE <<<<"PAGEFAULT_EXCEPTION", va>>>>
           exc == StageException(first.stage)
       IN  IF first.stop # ""
             THEN /\ halted' = first.stop
                  /\ tt' = [tt EXCEPT ![Current] = first.table]
                  /\ raised' = faultsRaised
                  /\ ret' = MemRet(op, virtAddr, va, size, value, first, NoAddr, handler, FALSE, FALSE, {})
                  /\ UNCHANGED mainMemory
           ELSE IF second.stop # ""
             THEN /\ halted' = second.stop
                  /\ tt' = [tt EXCEPT ![Current] = second.table]
                  /\ raised' = faultsRaised
                  /\ ret' = MemRet(op, virtAddr, va, size, value, first, second.physAddr, handler, FALSE, FALSE, {})
                  /\ UNCHANGED mainMemory
           ELSE IF exc # "NO_EXCEPTION"
             THEN /\ raised' = faultsRaised \o ExceptionsRaised(exc, va)
                  /\ halted' = IF ExceptionHandler(exc) # "" THEN ExceptionHandler(exc) ELSE halted
                  /\ tt' = [tt EXCEPT ![Current] = second.table]
                  /\ ret' = MemRet(op, virtAddr, va, size, value, first, second.physAddr, handler,
                                   ExceptionHandler(exc) = "", FALSE, {})
                  /\ UNCHANGED mainMemory
           ELSE IF first.physAddr # second.physAddr
             THEN \* ASSERT(physAddr == physAddrEnd)
                  /\ halted' = "assert"
                  /\ tt' = [tt EXCEPT ![Current] = second.table]
                  /\ raised' = faultsRaised
                  /\ ret' = MemRet(op, virtAddr, va, size, value, first, second.physAddr, handler, FALSE, FALSE, {})
                  /\ UNCHANGED mainMemory
           ELSE \E outcome \in AccessOutcomes(first.physAddr, size) :
                /\ tt' = [tt EXCEPT ![Current] = second.table]
                /\ raised' = faultsRaised
                /\ mainMemory' = IF writing
                                   THEN [f \in Frames |->
                                           IF f \in FramesTouched(first.physAddr, size)
                                             THEN value ELSE mainMemory[f]]
                                   ELSE mainMemory
                /\ ret' = MemRet(op, virtAddr, va, size, value, first, second.physAddr, handler,
                                 outcome = "", outcome = "", BytesTouched(first.physAddr, size))
                /\ halted' = IF outcome = "" THEN halted ELSE outcome
  /\ UNCHANGED <<tpr, free_page_list, pc, ctx>>
  /\ UNCHANGED <<page_flags, swap_disk, held, written, syncVars>>

\* bool MMU::ReadMem(virtAddr, size, &value)
ReadMem(va, size) == MemAccess("ReadMem", ToUint64(va), size, FALSE, 0)

\* bool MMU::WriteMem(addr, size, value)
WriteMem(va, size, value) == MemAccess("WriteMem", ToUint64(va), size, TRUE, value)

\* The addresses tried: in every page, and in the first page past the
\* table, an offset of each alignment (8, odd, 2 and 4).
MemOffsets == {0, 1, 2, 4}
MemVAddrs == {va \in VAddrs : Offset(va) \in MemOffsets}

NextMem ==
  \/ \E va \in MemVAddrs, size \in Sizes : ReadMem(va, size)
  \/ \E va \in MemVAddrs, size \in Sizes, value \in Contents : WriteMem(va, size, value)

SpecMem == InitMem /\ [][NextMem]_vars

(***************************************************************************)
(* SpecMem64: ReadMem and WriteMem on addresses of the whole uint64_t      *)
(* range: the start of each page, below 2^32 and from 2^32 on.             *)
(***************************************************************************)
\* The upper 32 bits of the addresses tried.
HighParts == {0, 1}

Addrs64 == {Uint64Of(high, va) : high \in HighParts, va \in SysVAddrs}

\* bool MMU::ReadMem(uint64_t virtAddr, int size, uint64_t *value)
ReadMem64(virtAddr, size) == MemAccess("ReadMem", virtAddr, size, FALSE, 0)

\* bool MMU::WriteMem(uint64_t addr, int size, uint64_t value)
WriteMem64(virtAddr, size, value) == MemAccess("WriteMem", virtAddr, size, TRUE, value)

NextMem64 ==
  \/ \E virtAddr \in Addrs64, size \in Sizes : ReadMem64(virtAddr, size)
  \/ \E virtAddr \in Addrs64, size \in Sizes, value \in Contents :
       WriteMem64(virtAddr, size, value)

SpecMem64 == InitMem /\ [][NextMem64]_vars

(***************************************************************************)
(* Semaphore and Lock (synch.cc).  Each operation yields the new object,   *)
(* the thread it made ready (NULL when none), "blocked" when the caller    *)
(* went to sleep in the wait queue, and "fail": "" when the operation      *)
(* returns to its caller, "exit" when it ends in exit(ERROR), "assert"     *)
(* when an ASSERT fails.  Interrupts are off from the first statement to   *)
(* the last, so each operation is one step up to the point where the       *)
(* caller sleeps.                                                          *)
(***************************************************************************)
\* Semaphore::P, synch.cc 89-104.
P(sem, t) ==
  IF sem.count = 0
    THEN [sem |-> [sem EXCEPT !.wait_queue = Append(@, t)],
          blocked |-> TRUE, ready |-> NULL, fail |-> ""]
    ELSE [sem |-> [sem EXCEPT !.count = @ - 1],
          blocked |-> FALSE, ready |-> NULL, fail |-> "exit"]

\* Semaphore::V, synch.cc 115-126.  Remove gives NULL on an empty queue.
V(sem, t) ==
  [sem |-> [count |-> sem.count + 1,
            wait_queue |-> IF sem.wait_queue = <<>> THEN <<>> ELSE Tail(sem.wait_queue)],
   blocked |-> FALSE,
   ready |-> IF sem.wait_queue = <<>> THEN NULL ELSE Head(sem.wait_queue),
   fail |-> "exit"]

\* Lock::isHeldByCurrentThread, synch.cc 223-226.
isHeldByCurrentThread(lk, t) == lk.owner = t

\* Lock::Acquire, synch.cc 169-185.
Acquire(lk, t) ==
  IF ~lk.is_free
    THEN [lock |-> [lk EXCEPT !.wait_queue = Append(@, t)],
          blocked |-> TRUE, ready |-> NULL, fail |-> ""]
    ELSE [lock |-> [lk EXCEPT !.is_free = FALSE, !.owner = t],
          blocked |-> FALSE, ready |-> NULL, fail |-> "exit"]

\* Lock::Release, synch.cc 197-215.
Release(lk, t) ==
  IF ~isHeldByCurrentThread(lk, t)
    THEN [lock |-> lk, blocked |-> FALSE, ready |-> NULL, fail |-> "assert"]
  ELSE IF lk.wait_queue # <<>>
    THEN [lock |-> [lk EXCEPT !.wait_queue = Tail(@)],
          blocked |-> FALSE, ready |-> Head(lk.wait_queue), fail |-> "exit"]
    ELSE [lock |-> [lk EXCEPT !.is_free = TRUE, !.owner = NULL],
          blocked |-> FALSE, ready |-> NULL, fail |-> "exit"]

(***************************************************************************)
(* SpecSync: threads call P, V, Acquire and Release in any order.          *)
(***************************************************************************)
SyncThreads == Threads \cup FaultThreads

\* The initial values of the semaphore.
MaxCount == 2
InitialCounts == 0 .. MaxCount

IntStatuses == {"INTERRUPTS_ON", "INTERRUPTS_OFF"}

InitSync ==
  /\ tt = [o \in Owners |-> [v \in VPages |-> InitialEntry(v)]]
  /\ tpr = InitTpr
  /\ free_page_list = InitFreeList
  /\ pc = [t \in SyncThreads |-> "idle"]
  /\ ctx = [t \in SyncThreads |-> NoRet]
  /\ halted = "no"
  /\ ret = NoRet
  /\ page_flags = [sec \in Sectors |-> FALSE]
  /\ swap_disk = [sec \in Sectors |-> 0]
  /\ mainMemory = [f \in Frames |-> 0]
  /\ held = {}
  /\ written = {}
  /\ raised = <<>>
  /\ \E initialCount \in InitialCounts :
       semaphore = [count |-> initialCount, wait_queue |-> <<>>]
  /\ lock = [is_free |-> TRUE, owner |-> NULL, wait_queue |-> <<>>]
  /\ intStatus \in IntStatuses
  /\ readyList = <<>>

\* The record of a call: the operation, the calling thread, the objects and
\* the interrupt status it was made on, and whether it returned.
SyncRet(op, t, returned) ==
  [op |-> op, thread |-> t, sem |-> semaphore, lock |-> lock,
   status |-> intStatus, ready |-> readyList, returned |-> returned]

\* The outcome r of operation op called by thread t becomes the state: a
\* thread that sleeps stays in the call and another thread runs, with the
\* interrupt status it had; a call that returns has set the status back to
\* what it was (SetStatus(oldLevel)); exit(ERROR) ends the kernel with the
\* caller still in the call.
Called(op, t, r) ==
  /\ readyList' = IF r.ready = NULL THEN readyList ELSE Append(readyList, r.ready)
  /\ halted' = IF r.fail = "" THEN halted ELSE r.fail
  /\ pc' = [pc EXCEPT ![t] = IF r.blocked \/ r.fail # "" THEN op ELSE IF op = "Acquire" THEN "holding" ELSE "idle"]
  /\ IF r.blocked THEN intStatus' \in IntStatuses ELSE intStatus' = intStatus
  /\ ret' = SyncRet(op, t, ~r.blocked /\ r.fail = "")
  /\ UNCHANGED <<tt, tpr, free_page_list, ctx, raised>>
  /\ UNCHANGED swapVars

\* A thread that is not inside a call calls an operation.
CanCall(t) == halted = "no" /\ pc[t] \in {"idle", "holding"}

CallP(t) ==
  /\ CanCall(t)
  /\ LET r == P(semaphore, t)
     IN  semaphore' = r.sem /\ Called("P", t, r)
  /\ UNCHANGED lock

CallV(t) ==
  /\ CanCall(t)
  /\ LET r == V(semaphore, t)
     IN  semaphore' = r.sem /\ Called("V", t, r)
  /\ UNCHANGED lock

CallAcquire(t) ==
  /\ CanCall(t)
  /\ LET r == Acquire(lock, t)
     IN  lock' = r.lock /\ Called("Acquire", t, r)
  /\ UNCHANGED semaphore

CallRelease(t) ==
  /\ CanCall(t)
  /\ LET r == Release(lock, t)
     IN  lock' = r.lock /\ Called("Release", t, r)
  /\ UNCHANGED semaphore

NextSync ==
  \/ \E t \in SyncThreads : CallP(t)
  \/ \E t \in SyncThreads : CallV(t)
  \/ \E t \in SyncThreads : CallAcquire(t)
  \/ \E t \in SyncThreads : CallRelease(t)

SpecSync == InitSync /\ [][NextSync]_vars

\* The scheduler is fair: a thread that can run does run.
SpecSyncFair == SpecSync /\ WF_vars(NextSync)

(***************************************************************************)
(* SpecSem: a semaphore made by the SemCreate system call, then P and V.   *)
(***************************************************************************)
\* (int) x for a uint32_t x: the value of its 32 bits in two's complement.
ToInt32(u32) ==
  IF u32[2] >= LimbBase \div 2
    THEN (u32[2] - LimbBase) * LimbBase + u32[1]
    ELSE u32[2] * LimbBase + u32[1]

\* Semaphore::Semaphore(debugName, uint32_t initialCount), synch.cc 48-54:
\* count = initialCount, with count an int.
SemaphoreCtor(initialCount) == [count |-> ToInt32(initialCount), wait_queue |-> <<>>]

\* The values a program passes to SemCreate (int initval, part_001 707).
InitVals == (0 - 1) .. MaxCount

\* part_001 701-716: new Semaphore(name, initval), the int converted to the
\* constructor's uint32_t parameter.
InitSem ==
  /\ tt = [o \in Owners |-> [v \in VPages |-> InitialEntry(v)]]
  /\ tpr = InitTpr
  /\ free_page_list = InitFreeList
  /\ pc = [t \in SyncThreads |-> "idle"]
  /\ ctx = [t \in SyncThreads |-> NoRet]
  /\ halted = "no"
  /\ ret = NoRet
  /\ page_flags = [sec \in Sectors |-> FALSE]
  /\ swap_disk = [sec \in Sectors |-> 0]
  /\ mainMemory = [f \in Frames |-> 0]
  /\ held = {}
  /\ written = {}
  /\ raised = <<>>
  /\ \E initval \in InitVals : semaphore = SemaphoreCtor(ToUint32(initval))
  /\ lock = [is_free |-> TRUE, owner |-> NULL, wait_queue |-> <<>>]
  /\ intStatus \in IntStatuses
  /\ readyList = <<>>

NextSem ==
  \/ \E t \in SyncThreads : CallP(t)
  \/ \E t \in SyncThreads : CallV(t)

SpecSem == InitSem /\ [][NextSem]_vars

(***************************************************************************)
(* SpecSyscall: a user program makes a system call (SYSCALL_EXCEPTION).    *)
(***************************************************************************)
\* The system call numbers of the semaphore operations, syscall.h 53-56.
SC_P == 13
SC_V == 14
SC_SEM_CREATE == 15
SC_SEM_DESTROY == 16

\* The first and the last system call number, syscall.h 40 and 74, and the
\* numbers around those of the synchronisation objects, syscall.h 52 and 66.
SC_HALT == 0
SC_PERROR == 12
SC_TTY_SEND == 26
SC_DEBUG == 34

SemaphoreSyscalls == {SC_P, SC_V, SC_SEM_CREATE, SC_SEM_DESTROY}

\* The numbers a program can put in the system call register: every system
\* call number and one past the last.
SyscallNumbers == 0 .. (SC_DEBUG + 1)

\* The case labels of switch (no_syscall), part_001 126-643: SC_HALT to
\* SC_PERROR and SC_TTY_SEND to SC_DEBUG.
SyscallCases == (SC_HALT .. SC_PERROR) \cup (SC_TTY_SEND .. SC_DEBUG)

\* The identifiers a program passes: that of the semaphore, and one that
\* names no object.
SemaphoreId == 0
ObjectIds == {SemaphoreId, SemaphoreId + 1}

\* ExceptionHandler(SYSCALL_EXCEPTION, vaddr), part_001 122-651: the inner
\* switch takes the case of no_syscall; the cases SC_SEM_CREATE,
\* SC_SEM_DESTROY, SC_P and SC_V (part_001 701-796) are labels of the outer
\* switch (exceptiontype), so a semaphore system call comes to the default
\* case of the inner switch: exit(ERROR).
SyscallHandler(no_syscall) ==
  IF no_syscall \in SyscallCases THEN "case" ELSE "default"

\* What becomes of the kernel: exit(ERROR) in the default case (part_001
\* 644-647), Halt(NO_ERROR) in case SC_HALT (part_001 129-133).
SyscallStops(no_syscall) ==
  IF SyscallHandler(no_syscall) = "default" THEN "exit"
  ELSE IF no_syscall = SC_HALT THEN "halt" ELSE "no"

\* The record of a system call: its number and parameter, the part of the
\* handler that ran, and the semaphore it was made on.
SyscallRet(no_syscall, id, handler) ==
  [op |-> "Syscall", no_syscall |-> no_syscall, id |-> id, handler |-> handler,
   sem |-> semaphore]

Syscall(no_syscall, id) ==
  /\ halted = "no"
  /\ ret = NoRet
  /\ LET handler == SyscallHandler(no_syscall)
     IN  /\ halted' = SyscallStops(no_syscall)
         /\ ret' = SyscallRet(no_syscall, id, handler)
  /\ UNCHANGED <<tt, tpr, free_page_list, pc, ctx, raised>>
  /\ UNCHANGED <<swapVars, syncVars>>

NextSyscall == \E no_syscall \in SyscallNumbers, id \in ObjectIds : Syscall(no_syscall, id)

SpecSyscall == InitSync /\ [][NextSyscall]_vars

(***************************************************************************)
(* Properties of MMU::Translate (checked under SpecMMU).                   *)
(***************************************************************************)
IsTranslate == ret.op = "Translate"

\* The access is alignment-correct for its size.
Aligned(va, size) == (size = 4 => va % 4 = 0) /\ (size = 2 => va % 2 = 0)

\* The page number of the access is within the capacity of the table.
InRange(va) == (va \div PageSize) < MaxNumPages

\* The addressed entry when Translate was called, and now.
Before == ret.before[ret.va \div PageSize]
Now == tt[ret.owner][ret.va \div PageSize]

PPInBounds(pp) == 0 <= pp /\ pp < NumPhysPages

\* C1: a misaligned 4-byte access (a mod 4 # 0) and a misaligned 2-byte
\* access (a mod 2 # 0) return BUSERROR_EXCEPTION, reading or writing,
\* whatever the page's entry; 1-byte and 8-byte accesses are never rejected
\* by the alignment check.
C1_Alignment ==
  IsTranslate =>
    /\ (ret.size = 4 /\ ret.va % 4 # 0) =>
          (ret.returned /\ ret.exc = "BUSERROR_EXCEPTION" /\ ret.faults = 0)
    /\ (ret.size = 2 /\ ret.va % 2 # 0) =>
          (ret.returned /\ ret.exc = "BUSERROR_EXCEPTION" /\ ret.faults = 0)
    /\ (ret.size \in {1, 8}) => ret.stage # "alignment"

\* A misaligned 2-byte write to a resident read-write page is a bus error.
C1_Witness ==
  /\ IsTranslate /\ ret.size = 2 /\ ret.va % 2 = 1 /\ ret.writing
  /\ InRange(ret.va) /\ Before.valid /\ Before.writeAllowed /\ Before.readAllowed
  /\ PPInBounds(Before.physicalPage)
  /\ ret.exc = "BUSERROR_EXCEPTION"

\* C2: an aligned, in-range access to a page whose entry has neither
\* readAllowed nor writeAllowed returns ADDRESSERROR_EXCEPTION, reading or
\* writing, valid bit set or not.
C2_Unmapped ==
  (IsTranslate /\ Aligned(ret.va, ret.size) /\ InRange(ret.va)
     /\ ~Before.readAllowed /\ ~Before.writeAllowed)
  => (ret.returned /\ ret.exc = "ADDRESSERROR_EXCEPTION")

\* A read of an unmapped page whose valid bit is set is an address error.
C2_Witness ==
  /\ IsTranslate /\ Aligned(ret.va, ret.size) /\ InRange(ret.va)
  /\ ~Before.readAllowed /\ ~Before.writeAllowed /\ Before.valid
  /\ PPInBounds(Before.physicalPage) /\ ~ret.writing
  /\ ret.exc = "ADDRESSERROR_EXCEPTION"

\* C3 as stated: on a page with writeAllowed = false and readAllowed = true
\* every write translation returns READONLY_EXCEPTION, and every read
\* translation returns NO_EXCEPTION when the entry is valid and its physical
\* page is in bounds.
C3_ReadOnlyAsStated ==
  (IsTranslate /\ InRange(ret.va) /\ Before.readAllowed /\ ~Before.writeAllowed)
  => /\ ret.writing => (ret.returned /\ ret.exc = "READONLY_EXCEPTION")
     /\ (~ret.writing /\ Before.valid /\ PPInBounds(Before.physicalPage))
          => (ret.returned /\ ret.exc = "NO_EXCEPTION")

\* C3 (amended): on a page with writeAllowed = false and readAllowed = true
\* every alignment-correct write translation returns READONLY_EXCEPTION, and
\* every alignment-correct read translation returns NO_EXCEPTION when the
\* entry is valid and its physical page is in bounds.
C3_ReadOnly ==
  (IsTranslate /\ Aligned(ret.va, ret.size) /\ InRange(ret.va)
     /\ Before.readAllowed /\ ~Before.writeAllowed)
  => /\ ret.writing => (ret.returned /\ ret.exc = "READONLY_EXCEPTION")
     /\ (~ret.writing /\ Before.valid /\ PPInBounds(Before.physicalPage))
          => (ret.returned /\ ret.exc = "NO_EXCEPTION")

\* An aligned write to a read-only page that is not resident is refused.
C3_Witness ==
  /\ IsTranslate /\ Aligned(ret.va, ret.size) /\ InRange(ret.va)
  /\ Before.readAllowed /\ ~Before.writeAllowed /\ ~Before.valid
  /\ ret.writing /\ ret.exc = "READONLY_EXCEPTION"

\* C4: an alignment-correct access whose page number is >= getMaxNumPages()
\* returns ADDRESSERROR_EXCEPTION without reading any table entry.
C4_Range ==
  (IsTranslate /\ Aligned(ret.va, ret.size) /\ ~InRange(ret.va))
  => (ret.returned /\ ret.exc = "ADDRESSERROR_EXCEPTION" /\ ret.read = {})

\* An 8-byte read at the first page number past the table.
C4_Witness ==
  /\ IsTranslate /\ ret.size = 8 /\ ret.va \div PageSize = MaxNumPages
  /\ ~ret.writing /\ ret.exc = "ADDRESSERROR_EXCEPTION"

\* The first of the checks alignment, range, mapped, permission that the
\* access fails, from the arguments and the entry alone ("residency" when it
\* passes the four).
FirstFailing ==
  IF ~Aligned(ret.va, ret.size) THEN "alignment"
  ELSE IF ~InRange(ret.va) THEN "range"
  ELSE IF ~Before.readAllowed /\ ~Before.writeAllowed THEN "mapped"
  ELSE IF ret.writing /\ ~Before.writeAllowed THEN "permission"
  ELSE "residency"

\* C5: the checks are applied in the order alignment, range, mapped,
\* permission, residency, frame bounds, and the exception returned is that of
\* the first check that fails: BusError for a misaligned access even to an
\* out-of-range or unmapped page, AddressError for a write to a page with
\* neither permission bit; a page that is not valid is faulted in before the
\* frame-bounds check is made.
C5_CheckOrder ==
  IsTranslate =>
    /\ FirstFailing = "alignment" => (ret.returned /\ ret.exc = "BUSERROR_EXCEPTION")
    /\ FirstFailing \in {"range", "mapped"} =>
          (ret.returned /\ ret.exc = "ADDRESSERROR_EXCEPTION")
    /\ FirstFailing = "permission" => (ret.returned /\ ret.exc = "READONLY_EXCEPTION")
    /\ FirstFailing # "residency" => ret.faults = 0
    /\ FirstFailing = "residency" =>
          /\ ret.faults = (IF Before.valid THEN 0 ELSE 1)
          /\ ret.returned =>
                ret.exc = (IF PPInBounds(Now.physicalPage)
                             THEN "NO_EXCEPTION" ELSE "BUSERROR_EXCEPTION")

\* A misaligned 4-byte write to a page past the table is a bus error.
C5_Witness ==
  /\ IsTranslate /\ ret.size = 4 /\ ret.va % 4 # 0 /\ ~InRange(ret.va)
  /\ ret.writing /\ ret.exc = "BUSERROR_EXCEPTION"

\* C6: when Translate returns NO_EXCEPTION the entry's U bit is set, its M
\* bit is set after a write and as it was after a read, and the physical
\* address is getPhysicalPage(vpn) * PageSize + (va mod PageSize).
C6_Success ==
  (IsTranslate /\ ret.returned /\ ret.exc = "NO_EXCEPTION")
  => /\ Now.U
     /\ ret.writing => Now.M
     /\ ~ret.writing => (Now.M = Before.M)
     /\ ret.physAddr = Now.physicalPage * PageSize + (ret.va % PageSize)

\* A successful read at a non-zero offset of a clean page on a frame other
\* than frame 0.
C6_Witness ==
  /\ IsTranslate /\ ret.returned /\ ret.exc = "NO_EXCEPTION" /\ ~ret.writing
  /\ ~Before.M /\ ~Before.U /\ ret.va % PageSize # 0 /\ Now.physicalPage # 0

\* C7: Translate never returns NO_EXCEPTION for a page whose valid bit is
\* false when it returns; a mapped, permitted page that is not valid raises
\* exactly one PAGEFAULT_EXCEPTION, and when the entry is still not valid
\* after the handler the kernel terminates and Translate does not return.
C7_Residency ==
  IsTranslate =>
    /\ (ret.returned /\ ret.exc = "NO_EXCEPTION") => Now.valid
    /\ (FirstFailing = "residency" /\ ~Before.valid) => ret.faults = 1
    /\ ret.faults \in {0, 1}
    /\ (ret.faults = 1 /\ ~Now.valid) => (~ret.returned /\ halted # "no")

\* The handler returned NO_EXCEPTION and left the entry invalid (on a frame
\* number that is in bounds): exit(ERROR).
C7_Witness ==
  /\ IsTranslate /\ ret.faults = 1 /\ ~Now.valid /\ PPInBounds(Now.physicalPage)
  /\ halted = "exit" /\ ~ret.returned

\* C8: a physical address returned with NO_EXCEPTION is below
\* NumPhysPages * PageSize; when the resolved physical page is negative or
\* >= NumPhysPages, Translate returns BUSERROR_EXCEPTION and sets neither the
\* U nor the M bit.
C8_FrameBounds ==
  IsTranslate =>
    /\ (ret.returned /\ ret.exc = "NO_EXCEPTION") =>
          (0 <= ret.physAddr /\ ret.physAddr < NumPhysPages * PageSize)
    /\ (ret.returned /\ FirstFailing = "residency" /\ ~PPInBounds(Now.physicalPage)) =>
          /\ ret.exc = "BUSERROR_EXCEPTION"
          /\ Now.U = Before.U /\ Now.M = Before.M

\* A write faults the page in, the handler installs physical page
\* NumPhysPages, and the write is refused with the bits untouched.
C8_Witness ==
  /\ IsTranslate /\ ret.writing /\ ret.faults = 1 /\ ret.returned
  /\ Now.valid /\ Now.physicalPage = NumPhysPages
  /\ ~Now.U /\ ~Now.M /\ ret.exc = "BUSERROR_EXCEPTION"

(***************************************************************************)
(* Properties of the translation tables and the frame table (checked       *)
(* under Spec).                                                            *)
(***************************************************************************)
\* The (owner, virtualPage) pairs whose translation entry is valid.
ValidPairs == {p \in Owners \X VPages : tt[p[1]][p[2]].valid}

C10_Consistent ==
  Quiescent =>
    /\ \A p \in ValidPairs :
         LET f == tt[p[1]][p[2]].physicalPage
         IN  /\ f \in Frames
             /\ ~tpr[f].free
             /\ tpr[f].owner = p[1]
             /\ tpr[f].virtualPage = p[2]
    /\ \A f \in Frames :
         ~tpr[f].free =>
           /\ tpr[f].owner \in Owners
           /\ tpr[f].virtualPage \in VPages
           /\ <<tpr[f].owner, tpr[f].virtualPage>> \in ValidPairs
           /\ tt[tpr[f].owner][tpr[f].virtualPage].physicalPage = f

\* Frame 0 is free and still names the page of A it held; frame 1 holds a
\* resident page of B; the entry of A that frame 0 names is no longer valid.
C10_Witness ==
  /\ Quiescent /\ halted = "no"
  /\ tpr[0].free /\ tpr[0].owner = "A"
  /\ ~tt["A"][tpr[0].virtualPage].valid
  /\ ~tpr[1].free /\ tpr[1].owner = "B"
  /\ tt["B"][tpr[1].virtualPage].valid

(***************************************************************************)
(* Properties of the physical memory manager's operations (checked under   *)
(* SpecPMM).                                                               *)
(***************************************************************************)
\* The frames of a free list, and the frames a frame table marks free.
ListFrames(fl) == {fl[i] : i \in 1 .. Len(fl)}
FreeFrames(tp) == {f \in Frames : tp[f].free}

\* Every frame of the list occurs once.
NoDuplicates(fl) == \A i \in 1 .. Len(fl), j \in 1 .. Len(fl) : fl[i] = fl[j] => i = j

\* C11: FindFreePage returns INVALID_PAGE exactly when no frame is free,
\* changing nothing; otherwise it removes one frame index from the free
\* list, marks that frame not free and returns it.  It always returns (it
\* does not block), it leaves every translation table alone (it does not
\* evict), and the frame it returns was not allocated when it was called.
C11_FindFreePage ==
  ret.op = "FindFreePage" =>
    /\ ret.fail = ""
    /\ (ret.page = INVALID_PAGE) <=> (FreeFrames(ret.tpr) = {})
    /\ tt = ret.tt
    /\ ret.page = INVALID_PAGE => (tpr = ret.tpr /\ free_page_list = ret.list)
    /\ ret.page # INVALID_PAGE =>
         /\ ret.page \in ListFrames(ret.list)
         /\ ret.tpr[ret.page].free
         /\ Len(free_page_list) = Len(ret.list) - 1
         /\ ListFrames(free_page_list) = ListFrames(ret.list) \ {ret.page}
         /\ tpr = [ret.tpr EXCEPT ![ret.page].free = FALSE]

\* Frame 1 was allocated to a page of A, released, and is returned again
\* while frame 0 is still allocated.
C11_Witness ==
  /\ ret.op = "FindFreePage" /\ ret.page = 1
  /\ ret.tpr[1].owner = "A" /\ ~ret.tpr[0].free
  /\ ~tpr[1].free /\ halted = "no"

\* C12: after construction and after any sequence of FindFreePage,
\* FreePhysicalPage, SetTPREntry and UnlockPage that the kernel survives,
\* the free list contains exactly the frames whose tpr entry has free =
\* true, each once; the assertion of FindFreePage that the removed frame is
\* free never fails.
C12_FreeList ==
  /\ halted = "no" =>
       /\ ListFrames(free_page_list) = FreeFrames(tpr)
       /\ NoDuplicates(free_page_list)
  /\ ret.op = "FindFreePage" => ret.fail # "assert"

\* Frames were allocated, set up and released out of order: the list is
\* <<0, 2>> while frame 1 is allocated and locked.
C12_Witness ==
  /\ halted = "no" /\ free_page_list = <<0, 2>>
  /\ ~tpr[1].free /\ tpr[1].locked /\ tpr[0].owner = "A"

\* C13: FreePhysicalPage(f) on a non-free frame makes f free and unlocked,
\* inserts f into the free list, and clears the valid bit of entry
\* tpr[f].virtualPage in the translation table of tpr[f].owner when that
\* table exists (leaving the tables untouched when it does not); called on
\* an already-free frame it fails an assertion and changes no state.
C13_FreePhysicalPage ==
  ret.op = "FreePhysicalPage" =>
    IF ret.tpr[ret.arg].free
      THEN /\ ret.fail = "assert"
           /\ tpr = ret.tpr /\ free_page_list = ret.list /\ tt = ret.tt
      ELSE /\ ret.fail = ""
           /\ tpr = [ret.tpr EXCEPT ![ret.arg].free = TRUE, ![ret.arg].locked = FALSE]
           /\ Len(free_page_list) = Len(ret.list) + 1
           /\ ListFrames(free_page_list) = ListFrames(ret.list) \cup {ret.arg}
           /\ tt = IF HasTable(ret.tt, ret.tpr[ret.arg].owner)
                     THEN [ret.tt EXCEPT ![ret.tpr[ret.arg].owner]
                                            [ret.tpr[ret.arg].virtualPage].valid = FALSE]
                     ELSE ret.tt

\* C14: UnlockPage(f) fails an assertion, leaving all state unchanged, when
\* f >= NumPhysPages, when frame f is not locked, or when frame f is free;
\* otherwise it clears only the locked flag of f and leaves free, owner,
\* virtualPage, the free list and every translation table unchanged.
C14_UnlockPage ==
  ret.op = "UnlockPage" =>
    /\ free_page_list = ret.list /\ tt = ret.tt
    /\ IF ret.arg >= NumPhysPages \/ ~ret.tpr[ret.arg].locked \/ ret.tpr[ret.arg].free
         THEN ret.fail = "assert" /\ tpr = ret.tpr
         ELSE ret.fail = "" /\ tpr = [ret.tpr EXCEPT ![ret.arg].locked = FALSE]

\* UnlockPage is called on a frame that is locked and free (SetTPREntry
\* locked it while it was on the free list): the assertion fails.
C14_Witness ==
  /\ ret.op = "UnlockPage" /\ ret.arg \in Frames
  /\ ret.tpr[ret.arg].locked /\ ret.tpr[ret.arg].free
  /\ ret.fail = "assert" /\ tpr = ret.tpr

\* EvictPage is called with every frame occupied and some frame unlocked.
EvictCase ==
  /\ ret.op = "EvictPage"
  /\ FreeFrames(ret.tpr) = {}
  /\ \E f \in Frames : ~ret.tpr[f].locked

\* C16: whenever all frames are occupied and at least one frame is
\* unlocked, EvictPage terminates and returns the index of a frame that was
\* unlocked; when every frame is locked it does not loop forever but ends
\* in a fatal exhaustion condition.
C16_EvictLiveness ==
  (ret.op = "EvictPage" /\ FreeFrames(ret.tpr) = {}) =>
    IF \E f \in Frames : ~ret.tpr[f].locked
      THEN /\ ret.fail = ""
           /\ ret.page \in Frames
           /\ ~ret.tpr[ret.page].locked
      ELSE ret.fail = "exit"

\* The used bit of the page that frame f holds.
UsedBit(tp, tables, f) ==
  /\ tp[f].owner # NULL
  /\ HasTable(tables, tp[f].owner)
  /\ tables[tp[f].owner][tp[f].virtualPage].U

\* The clock algorithm as claimed: advance the cursor, skip a locked frame,
\* clear the used bit of a frame that has it set and move on, select the
\* first frame whose used bit is clear.
RECURSIVE ClockScan(_, _, _, _)
ClockScan(tp, tables, cursor, fuel) ==
  LET c == (cursor + 1) % NumPhysPages
  IN  IF fuel = 0 THEN [page |-> INVALID_PAGE, tt |-> tables, cursor |-> cursor]
      ELSE IF tp[c].locked THEN ClockScan(tp, tables, c, fuel - 1)
      ELSE IF UsedBit(tp, tables, c)
        THEN ClockScan(tp, [tables EXCEPT ![tp[c].owner][tp[c].virtualPage].U = FALSE],
                       c, fuel - 1)
      ELSE [page |-> c, tt |-> tables, cursor |-> c]

\* C17: EvictPage selects its victim with the clock (second-chance)
\* algorithm over the cursor i_clock: it returns the frame the scan selects
\* and leaves the used bits as the scan leaves them (cleared on every frame
\* it passed over).
C17_Clock ==
  EvictCase =>
    LET scan == ClockScan(ret.tpr, ret.tt, i_clock, 2 * NumPhysPages + 1)
    IN  /\ ret.fail = ""
        /\ ret.page = scan.page
        /\ \A o \in Owners : HasTable(tt, o) =>
             \A v \in VPages : tt[o][v].U = scan.tt[o][v].U

\* C18: when EvictPage hands a victim frame to its caller, a modified
\* victim page has been written to swap (to the sector it had, else to a
\* newly allocated one), that sector is recorded in the evicted entry, the
\* entry's valid bit is cleared, and the victim frame is not in the free
\* list.
C18_WriteBack ==
  EvictCase =>
    /\ ret.fail = ""
    /\ ret.page \in Frames
    /\ ret.page \notin ListFrames(free_page_list)
    /\ LET o == ret.tpr[ret.page].owner
           v == ret.tpr[ret.page].virtualPage
       IN  (o # NULL /\ HasTable(ret.tt, o)) =>
             /\ ~tt[o][v].valid
             /\ ret.tt[o][v].M =>
                  /\ tt[o][v].addrDisk \in Sectors
                  /\ page_flags[tt[o][v].addrDisk]
                  /\ swap_disk[tt[o][v].addrDisk] = mainMemory[ret.page]
                  /\ ret.tt[o][v].addrDisk # INVALID_SECTOR =>
                       tt[o][v].addrDisk = ret.tt[o][v].addrDisk

(***************************************************************************)
(* Properties of concurrent page faults (checked under SpecFault).         *)
(***************************************************************************)
\* The threads whose page fault is being serviced on a frame.
Servicing == {t \in FaultThreads : pc[t] = "load"}

ClearSectors(flags) == {sec \in Sectors : ~flags[sec]}

\* The lowest-numbered sector of a non-empty set.
Lowest(S) == CHOOSE sec \in S : \A other \in S : sec <= other

\* C19: PutPageSwap called with INVALID_SECTOR, while some occupancy bit is
\* clear, allocates the lowest-numbered sector whose bit is clear, sets that
\* bit, writes the page of frame pp to that sector and returns its number;
\* the bits of all other sectors are unchanged.
C19_PutAllocates ==
  (ret.op = "PutPageSwap" /\ ret.arg = INVALID_SECTOR /\ ClearSectors(ret.flags) # {}) =>
    LET low == Lowest(ClearSectors(ret.flags))
    IN  /\ ret.sector = low
        /\ page_flags = [ret.flags EXCEPT ![low] = TRUE]
        /\ swap_disk = [ret.disk EXCEPT ![low] = ret.mem[ret.pp]]

\* Sector 0 is occupied, sector 1 was released, sector 2 is occupied: the
\* page of frame 1, whose content differs from what sector 1 held, goes to
\* sector 1.
C19_Witness ==
  /\ ret.op = "PutPageSwap" /\ ret.arg = INVALID_SECTOR /\ ret.pp = 1
  /\ ret.flags[0] /\ ~ret.flags[1] /\ ret.flags[2]
  /\ ret.disk[1] # ret.mem[1]
  /\ ret.sector = 1 /\ page_flags[1] /\ swap_disk[1] = ret.mem[1]

\* C20: no swap sector is held by two pages at once: a sector returned by
\* an allocating PutPageSwap (INVALID_SECTOR argument) is not returned by a
\* later allocating PutPageSwap until ReleasePageSwap has been called on it.
C20_SectorExclusive ==
  (ret.op = "PutPageSwap" /\ ret.arg = INVALID_SECTOR /\ ret.sector # INVALID_SECTOR) =>
    ret.sector \notin ret.held

\* Sectors 0 and 1 are held; sector 0 is released and handed out again by
\* the next allocating PutPageSwap while sector 1 is still held.
C20_Witness ==
  /\ ret.op = "PutPageSwap" /\ ret.arg = INVALID_SECTOR
  /\ ret.held = {1} /\ ret.disk[0] = 1
  /\ ret.sector = 0 /\ held = {0, 1}

\* C21: PutPageSwap called with an existing sector number (not
\* INVALID_SECTOR) writes the page of frame pp to that sector, returns the
\* sector, allocates no sector and leaves the occupancy bitmap unchanged.
C21_PutReuses ==
  (ret.op = "PutPageSwap" /\ ret.arg \in Sectors) =>
    /\ ret.sector = ret.arg
    /\ page_flags = ret.flags
    /\ held = ret.held
    /\ swap_disk = [ret.disk EXCEPT ![ret.arg] = ret.mem[ret.pp]]

\* Sector 1 is occupied and sector 0 is clear: the page of frame 0, whose
\* content differs from what sector 1 holds, is written to sector 1 and
\* sector 0 stays clear.
C21_Witness ==
  /\ ret.op = "PutPageSwap" /\ ret.arg = 1 /\ ret.pp = 0
  /\ ~ret.flags[0] /\ ret.flags[1]
  /\ ret.disk[1] # ret.mem[0]
  /\ ret.sector = 1 /\ ~page_flags[0] /\ swap_disk[1] = ret.mem[0]

\* C22: when every sector is occupied, PutPageSwap called with
\* INVALID_SECTOR returns INVALID_SECTOR, writes nothing to the disk and
\* leaves the bitmap unchanged; INVALID_SECTOR differs from every sector
\* number and is still INVALID_SECTOR after passing through the uint64_t
\* return value and the uint32_t parameter disk_addr.
C22_SwapFull ==
  /\ (ret.op = "PutPageSwap" /\ ret.arg = INVALID_SECTOR /\ ClearSectors(ret.flags) = {}) =>
       /\ ret.sector = INVALID_SECTOR
       /\ swap_disk = ret.disk
       /\ page_flags = ret.flags
       /\ Truncate32(ToUint64(ret.sector)) = ToUint32(INVALID_SECTOR)
  /\ \A sec \in Sectors :
       /\ ToUint32(sec) # ToUint32(INVALID_SECTOR)
       /\ ToUint64(sec) # ToUint64(INVALID_SECTOR)
       /\ Truncate32(ToUint64(sec)) = ToUint32(sec)

\* Every sector is occupied and the disk holds a page that differs from the
\* page of frame pp: the call returns INVALID_SECTOR.
C22_Witness ==
  /\ ret.op = "PutPageSwap" /\ ret.arg = INVALID_SECTOR
  /\ \A sec \in Sectors : ret.flags[sec] /\ ret.disk[sec] # ret.mem[ret.pp]
  /\ ret.sector = INVALID_SECTOR

\* C23: ReleasePageSwap(s) clears the occupancy bit of sector s and of no
\* other sector, so that a later allocating PutPageSwap can return s again
\* (it does when every lower sector is occupied); releasing a sector whose
\* bit is already clear leaves the bitmap unchanged.
C23_Release ==
  ret.op = "ReleasePageSwap" =>
    /\ page_flags = [sec \in Sectors |-> sec # ret.arg /\ ret.flags[sec]]
    /\ swap_disk = ret.disk
    /\ ~ret.flags[ret.arg] => page_flags = ret.flags
    /\ LET again == PutPageSwap(page_flags, swap_disk, mainMemory, INVALID_SECTOR, 0)
       IN  /\ again.sector \in Sectors /\ again.sector <= ret.arg
           /\ (\A sec \in Sectors : sec < ret.arg => page_flags[sec]) =>
                again.sector = ret.arg

\* Every sector is occupied and held; sector 1 is released: sectors 0 and 2
\* stay occupied and sector 1 is the one an allocation returns next.
C23_Witness ==
  /\ ret.op = "ReleasePageSwap" /\ ret.arg = 1
  /\ \A sec \in Sectors : ret.flags[sec]
  /\ page_flags[0] /\ ~page_flags[1] /\ page_flags[2]
  /\ PutPageSwap(page_flags, swap_disk, mainMemory, INVALID_SECTOR, 0).sector = 1

\* C24: after PutPageSwap wrote the content of a frame to the sector it
\* returned, GetPageSwap of that sector into any frame makes the content of
\* that frame equal to the content written, whatever was written to other
\* sectors in between, and changes no other frame.
C24_RoundTrip ==
  ret.op = "GetPageSwap" =>
    \A c \in Contents :
      <<ret.arg, c>> \in ret.written => mainMemory = [ret.mem EXCEPT ![ret.pp] = c]

\* Sector 0 was allocated for a page of content 1, sector 1 later received
\* a page of content 0; sector 0 is read into frame 1, which held content 0.
C24_Witness ==
  /\ ret.op = "GetPageSwap" /\ ret.arg = 0 /\ ret.pp = 1
  /\ 0 \in ret.held /\ ret.written = {<<0, 1>>, <<1, 0>>}
  /\ ret.mem[1] = 0 /\ mainMemory[1] = 1

(***************************************************************************)
(* Properties of ReadMem and WriteMem (checked under SpecMem).             *)
(***************************************************************************)
IsMemAccess == ret.op \in {"ReadMem", "WriteMem"}

\* The translation of the access failed with one of the three errors.
TranslationFailed ==
  /\ IsMemAccess
  /\ ret.exc \in {"BUSERROR_EXCEPTION", "ADDRESSERROR_EXCEPTION", "READONLY_EXCEPTION"}

\* The exceptions of kind exc that were raised.
RaisedOfKind(exc) == SelectSeq(raised, LAMBDA r : r[1] = exc)

C26_FaultHalts ==
  (IsMemAccess /\ ret.faults > 0) =>
    /\ ret.faults = 1
    /\ RaisedOfKind("PAGEFAULT_EXCEPTION") = <<<<"PAGEFAULT_EXCEPTION", ret.va>>>>
    /\ ret.faultPage = ret.va \div PageSize
    /\ ret.handler = "PAGEFAULT_EXCEPTION" =>
         halted = "halt" /\ ~ret.returned /\ mainMemory = ret.mem
    /\ ret.handler = "(EvictPage)" =>
         halted = "exit" /\ ~ret.returned /\ mainMemory = ret.mem

\* A write to a page that is not resident, whose handler returns an
\* exception.
C26_Witness ==
  /\ ret.op = "WriteMem" /\ ret.value = 1 /\ ret.faults = 1
  /\ ret.handler = "PAGEFAULT_EXCEPTION"
  /\ halted = "halt" /\ ~ret.returned

\* A read of a page that is not resident while no frame is free.
C26_WitnessEvict ==
  /\ ret.op = "ReadMem" /\ ret.faults = 1 /\ ret.handler = "(EvictPage)"
  /\ free_page_list = <<>> /\ halted = "exit" /\ ~ret.returned

(***************************************************************************)
(* Properties of Semaphore and Lock (checked under SpecSync).              *)
(***************************************************************************)
\* C27: Semaphore::P returns to its caller only after decrementing the
\* counter by one from a value > 0: called while the counter is 0, the
\* thread is appended to the wait queue and blocked; called while the
\* counter is positive, it decrements the counter and returns without
\* blocking.
C27_P ==
  ret.op = "P" =>
    IF ret.sem.count = 0
      THEN /\ semaphore = [ret.sem EXCEPT !.wait_queue = Append(@, ret.thread)]
           /\ ~ret.returned
           /\ pc[ret.thread] = "P"
      ELSE /\ semaphore = [ret.sem EXCEPT !.count = @ - 1]
           /\ ret.returned
           /\ halted = "no"

\* C28: Semaphore::V increments the counter by one, makes ready the thread
\* that has waited longest when the wait queue is not empty and no thread
\* otherwise, leaves the interrupt status as it was on entry, and returns to
\* its caller.
C28_V ==
  ret.op = "V" =>
    /\ semaphore.count = ret.sem.count + 1
    /\ IF ret.sem.wait_queue = <<>>
         THEN readyList = ret.ready /\ semaphore.wait_queue = <<>>
         ELSE /\ readyList = Append(ret.ready, Head(ret.sem.wait_queue))
              /\ semaphore.wait_queue = Tail(ret.sem.wait_queue)
    /\ intStatus = ret.status
    /\ ret.returned
    /\ halted = "no"

\* The threads that have returned from Acquire and not called Release since.
Holders == {t \in SyncThreads : pc[t] = "holding"}

C31_TwiceSame ==
  /\ halted # "assert"
  /\ (IsMemAccess /\ ret.exc = "NO_EXCEPTION") =>
       /\ halted \in {"no", "segv"}
       /\ ret.touched # {}
       /\ ret.physAddrEnd = ret.physAddr

\* A write whose first translation serviced a page fault.
C31_Witness ==
  /\ ret.op = "WriteMem" /\ ret.exc = "NO_EXCEPTION" /\ ret.faults = 1
  /\ ret.va % PageSize # 0 /\ ret.physAddr \div PageSize # 0
  /\ ret.physAddrEnd = ret.physAddr /\ ret.returned

(***************************************************************************)
(* Properties of the system calls (checked under SpecSyscall).             *)
(***************************************************************************)
\* C32: a SYSCALL_EXCEPTION whose number is SC_P, SC_V, SC_SEM_CREATE or
\* SC_SEM_DESTROY is dispatched to its own handler and the kernel goes on:
\* the call neither ends in the default case nor stops the kernel, and for
\* an identifier that is not a live semaphore no object is touched.
C32_SemaphoreSyscalls ==
  (ret.op = "Syscall" /\ ret.no_syscall \in SemaphoreSyscalls) =>
    /\ ret.handler = "case"
    /\ halted = "no"
    /\ ret.id # SemaphoreId => semaphore = ret.sem

(***************************************************************************)
(* Further properties of MMU::Translate (checked under SpecMMU).           *)
(***************************************************************************)
\* C33: a translation that fails the alignment, range, mapped or permission
\* check returns its exception and changes nothing: every entry of the table
\* keeps its U, M and valid bits and its physical page, no page fault is
\* raised (also when the page is not resident), and the kernel goes on.
C33_FailedChangesNothing ==
  (IsTranslate /\ FirstFailing # "residency") =>
    /\ ret.returned /\ halted = "no"
    /\ ret.exc \in {"BUSERROR_EXCEPTION", "ADDRESSERROR_EXCEPTION", "READONLY_EXCEPTION"}
    /\ ret.faults = 0
    /\ tt[ret.owner] = ret.before
    /\ ret.physAddr = NoAddr

\* An 8-byte write to a read-only page that is not resident is refused with
\* the page still absent and no fault taken.
C33_Witness ==
  /\ IsTranslate /\ ret.size = 8 /\ ret.writing /\ InRange(ret.va)
  /\ Before.readAllowed /\ ~Before.writeAllowed /\ ~Before.valid
  /\ ret.exc = "READONLY_EXCEPTION" /\ ret.faults = 0
  /\ ~Now.valid /\ ~Now.U /\ ~Now.M /\ tt[ret.owner] = ret.before

(***************************************************************************)
(* Properties of ReadMem and WriteMem on 64-bit addresses (SpecMem64).     *)
(***************************************************************************)
\* C34: ReadMem and WriteMem decide on the whole 64-bit address: every
\* access at an address >= 2^32 fails with ADDRESSERROR_EXCEPTION, does not
\* return true, and neither writes main memory nor touches the table.
C34_HighAddressFails ==
  (IsMemAccess /\ High32(ret.virtAddr) # 0) =>
    /\ ret.exc = "ADDRESSERROR_EXCEPTION"
    /\ ~ret.result
    /\ mainMemory = ret.mem

\* C35: every byte touched by a ReadMem or WriteMem of size 1, 2, 4 or 8
\* whose translation succeeded lies inside the frame mapped to the page of
\* the address and inside physical memory, also for an 8-byte access that
\* starts fewer than 8 bytes before the end of its page.
C35_BytesInFrame ==
  IsMemAccess =>
    \A b \in ret.touched :
      /\ InMemory(b)
      /\ b \div PageSize = tt[Current][Vpn(ret.va)].physicalPage

(***************************************************************************)
(* Further properties of the physical memory manager (checked under        *)
(* SpecPMM).                                                               *)
(***************************************************************************)
\* C36: FreePhysicalPage(f) never clears the valid bit of a translation
\* entry mapped to a frame other than f: every entry that was valid with
\* another physical page when the call was made is still valid after it.
C36_FreeOnlyOwnFrame ==
  (ret.op = "FreePhysicalPage" /\ ret.fail = "") =>
    \A o \in Owners : \A v \in DOMAIN ret.tt[o] :
      (ret.tt[o][v].valid /\ ret.tt[o][v].physicalPage # ret.arg) => tt[o][v].valid

\* C37: FreePhysicalPage(f) completes normally for every frame that is not
\* free, also one whose owner is still NULL: the call returns, the kernel
\* goes on and f is free and in the free list.
C37_FreeCompletes ==
  (ret.op = "FreePhysicalPage" /\ ~ret.tpr[ret.arg].free) =>
    /\ ret.fail = "" /\ halted = "no"
    /\ tpr[ret.arg].free
    /\ ret.arg \in ListFrames(free_page_list)

\* C38: after any sequence of FindFreePage, SetTPREntry, UnlockPage and
\* FreePhysicalPage no frame is both free and locked, and a frame returned
\* by FindFreePage is unlocked when it is returned.
C38_NoFreeLocked ==
  /\ \A f \in Frames : ~(tpr[f].free /\ tpr[f].locked)
  /\ (ret.op = "FindFreePage" /\ ret.fail = "" /\ ret.page # INVALID_PAGE) =>
        ~tpr[ret.page].locked

(***************************************************************************)
(* Further properties of the swap manager (checked under SpecSwap).        *)
(***************************************************************************)
\* C39: every sector number returned by PutPageSwap is marked occupied in
\* the bitmap when the call returns, also when the caller passed an existing
\* sector number: page content is never left in a sector whose bit is clear.
C39_PutMarksOccupied ==
  (ret.op = "PutPageSwap" /\ ret.sector \in Sectors) => page_flags[ret.sector]

(***************************************************************************)
(* Properties of the semaphore counter (checked under SpecSem).            *)
(***************************************************************************)
\* C40: the counter of a semaphore is never negative, whatever initial
\* value the constructor was given and whatever P and V were called, and P
\* takes nothing from a counter that is not positive.
C40_CountNonNegative ==
  /\ semaphore.count >= 0
  /\ (ret.op = "P" /\ ret.sem.count <= 0) => semaphore.count = ret.sem.count

=============================================================================
